---------------------------- MODULE Spec2Model ----------------------------
(***************************************************************************)
(* A model of book.py: the frontmatter codec, the chapter sidecars, the    *)
(* page graph and the restructuring commands.                              *)
(*                                                                         *)
(* Text is a sequence of one-character strings, a file name is such a      *)
(* sequence, and a path is a sequence of names below the book's root       *)
(* folder (the root folder itself is the empty path).                      *)
(***************************************************************************)
EXTENDS Integers, Sequences, FiniteSets, TLC

VARIABLES
    files,      \* path -> text of every markdown file on disk
    dirs,       \* the folders on disk (paths); the root folder is <<>>
    chapters,   \* folder -> entry list, for every folder holding a sidecar
    writes,     \* the paths written by write_frontmatter_file in the last step
    last,       \* what the last step was: command, arguments, outcome
    pre,        \* files, dirs and chapters as they were before the last step
    pages,      \* the page list of the page graph builder
    pc,         \* position of the codec and of the page graph builder
    steps       \* the number of commands run so far

vars == <<files, dirs, chapters, writes, last, pre, pages, pc, steps>>

-----------------------------------------------------------------------------
(* Characters and the str methods the program uses *)

NL == "\n"

\* src/book.py:76
FRONTMATTER_SEPERATOR_CHAR == "+"
\* src/book.py:77
FRONTMATTER_SEPERATOR_MIN_LENGTH == 3

IsSpace(c) == c \in {" ", "\n", "\t"}

RECURSIVE lstrip(_)
lstrip(s) ==
    IF s = <<>> THEN <<>>
    ELSE IF IsSpace(Head(s)) THEN lstrip(Tail(s)) ELSE s

RECURSIVE rstrip(_)
rstrip(s) ==
    IF s = <<>> THEN <<>>
    ELSE IF IsSpace(s[Len(s)]) THEN rstrip(SubSeq(s, 1, Len(s) - 1)) ELSE s

strip(s) == lstrip(rstrip(s))

startswith(s, p) == Len(s) >= Len(p) /\ SubSeq(s, 1, Len(p)) = p

\* index of the first c in s, 0 when there is none
find(s, c) ==
    IF \E i \in 1..Len(s) : s[i] = c
    THEN CHOOSE i \in 1..Len(s) : s[i] = c /\ \A j \in 1..(i - 1) : s[j] # c
    ELSE 0

\* the lines of a text file as iteration over the file gives them: line ends kept
RECURSIVE file_lines(_)
file_lines(s) ==
    IF s = <<>> THEN <<>>
    ELSE LET i == find(s, NL)
         IN IF i = 0 THEN <<s>>
            ELSE <<SubSeq(s, 1, i)>> \o file_lines(SubSeq(s, i + 1, Len(s)))

\* str.splitlines(): line ends dropped, no empty last line
RECURSIVE splitlines(_)
splitlines(s) ==
    IF s = <<>> THEN <<>>
    ELSE LET i == find(s, NL)
         IN IF i = 0 THEN <<s>>
            ELSE <<SubSeq(s, 1, i - 1)>> \o splitlines(SubSeq(s, i + 1, Len(s)))

\* ''.join(lines)
RECURSIVE concat(_)
concat(ls) == IF ls = <<>> THEN <<>> ELSE Head(ls) \o concat(Tail(ls))

\* '\n'.join(lines)
RECURSIVE join(_)
join(ls) ==
    IF ls = <<>> THEN <<>>
    ELSE IF Len(ls) = 1 THEN ls[1]
    ELSE ls[1] \o <<NL>> \o join(Tail(ls))

\* s.replace(c, r) for a single character c and a replacement text r
RECURSIVE replace(_, _, _)
replace(s, c, r) ==
    IF s = <<>> THEN <<>>
    ELSE (IF Head(s) = c THEN r ELSE <<Head(s)>>) \o replace(Tail(s), c, r)

LowerOf ==
    [c \in {"A", "B", "C", "D", "E", "F", "G", "H", "I", "J", "K", "L", "M",
            "N", "O", "P", "Q", "R", "S", "T", "U", "V", "W", "X", "Y", "Z"} |->
        CASE c = "A" -> "a" [] c = "B" -> "b" [] c = "C" -> "c" [] c = "D" -> "d"
          [] c = "E" -> "e" [] c = "F" -> "f" [] c = "G" -> "g" [] c = "H" -> "h"
          [] c = "I" -> "i" [] c = "J" -> "j" [] c = "K" -> "k" [] c = "L" -> "l"
          [] c = "M" -> "m" [] c = "N" -> "n" [] c = "O" -> "o" [] c = "P" -> "p"
          [] c = "Q" -> "q" [] c = "R" -> "r" [] c = "S" -> "s" [] c = "T" -> "t"
          [] c = "U" -> "u" [] c = "V" -> "v" [] c = "W" -> "w" [] c = "X" -> "x"
          [] c = "Y" -> "y" [] c = "Z" -> "z"]

\* str.lower()
lower(s) == [i \in 1..Len(s) |-> IF s[i] \in DOMAIN LowerOf THEN LowerOf[s[i]] ELSE s[i]]

\* a in b, for texts
contains(b, a) ==
    \E i \in 1..(Len(b) - Len(a) + 1) : SubSeq(b, i, i + Len(a) - 1) = a

-----------------------------------------------------------------------------
(* Frontmatter: None, or an ordered key/value map (a sequence of pairs) *)

None == [isNone |-> TRUE, kv |-> <<>>]
Map(kv) == [isNone |-> FALSE, kv |-> kv]

\* src/book.py:374
TOML_GENERAL_TITLE == <<"t", "i", "t", "l", "e">>

HasKey(kv, k) == \E i \in 1..Len(kv) : kv[i][1] = k
ValueOf(kv, k) == kv[CHOOSE i \in 1..Len(kv) : kv[i][1] = k][2]

\* toml.dumps of a flat map of strings: one line  key = "value"  per key
RECURSIVE toml_dumps(_)
toml_dumps(kv) ==
    IF kv = <<>> THEN <<>>
    ELSE kv[1][1] \o <<" ", "=", " ", "\"">> \o kv[1][2] \o <<"\"", NL>>
         \o toml_dumps(Tail(kv))

\* what toml.loads makes of one line: [ok, blank, key, value]
TomlBad == [ok |-> FALSE, blank |-> FALSE, key |-> <<>>, value |-> <<>>]
TomlBlank == [ok |-> TRUE, blank |-> TRUE, key |-> <<>>, value |-> <<>>]

\* a key and a quoted value
toml_key_value(k, v) ==
    IF k = <<>> \/ find(k, " ") # 0
       \/ Len(v) < 2 \/ v[1] # "\"" \/ v[Len(v)] # "\""
       \/ find(SubSeq(v, 2, Len(v) - 1), "\"") # 0
    THEN TomlBad
    ELSE [ok |-> TRUE, blank |-> FALSE, key |-> k, value |-> SubSeq(v, 2, Len(v) - 1)]

\* the stripped line s with its first '=' at e
toml_split(s, e) ==
    IF s = <<>> THEN TomlBlank
    ELSE IF e < 2 THEN TomlBad
    ELSE toml_key_value(rstrip(SubSeq(s, 1, e - 1)), lstrip(SubSeq(s, e + 1, Len(s))))

toml_line(line) == toml_split(strip(line), find(strip(line), "="))

\* toml.loads: [ok, kv]; a malformed line or a repeated key is a decode error
RECURSIVE toml_loads_lines(_, _)
toml_loads_next(rest, kv, p) ==
    IF ~p.ok THEN [ok |-> FALSE, kv |-> <<>>]
    ELSE IF p.blank THEN toml_loads_lines(rest, kv)
    ELSE IF HasKey(kv, p.key) THEN [ok |-> FALSE, kv |-> <<>>]
    ELSE toml_loads_lines(rest, Append(kv, <<p.key, p.value>>))

toml_loads_lines(ls, kv) ==
    IF ls = <<>> THEN [ok |-> TRUE, kv |-> kv]
    ELSE toml_loads_next(Tail(ls), kv, toml_line(Head(ls)))

toml_loads(text) == toml_loads_lines(splitlines(text), <<>>)

\* the separator line of write_frontmatter_file
SeparatorLine ==
    [i \in 1..FRONTMATTER_SEPERATOR_MIN_LENGTH |-> FRONTMATTER_SEPERATOR_CHAR]

\* the test of read_frontmatter_file on a line: at least three characters, all '+'
is_separator(line) ==
    LET s == strip(line)
    IN Len(s) >= FRONTMATTER_SEPERATOR_MIN_LENGTH
       /\ \A i \in 1..Len(s) : s[i] = FRONTMATTER_SEPERATOR_CHAR

\* the scan of read_frontmatter_file: [has_frontmatter, first, second]
RECURSIVE scan_frontmatter(_, _, _, _)
scan_frontmatter(ls, has_frontmatter, first, second) ==
    IF ls = <<>>
    THEN [has_frontmatter |-> has_frontmatter, first |-> first, second |-> second]
    ELSE IF ~has_frontmatter
         THEN IF is_separator(Head(ls))
              THEN scan_frontmatter(Tail(ls), TRUE, first, second)
              ELSE scan_frontmatter(Tail(ls), FALSE, Append(first, Head(ls)), second)
         ELSE scan_frontmatter(Tail(ls), TRUE, first, Append(second, Head(ls)))

\* the frontmatter of a file that has the separator: a decode error is logged
\* and leaves the empty map
loaded_frontmatter(t) == Map(IF t.ok THEN t.kv ELSE <<>>)

\* the end of read_frontmatter_file, after the scan r
scanned_frontmatter(r) ==
    IF r.has_frontmatter
    THEN [frontmatter |-> loaded_frontmatter(toml_loads(concat(r.first))),
          content |-> concat(r.second)]
    ELSE [frontmatter |-> None, content |-> concat(r.first)]

\* read_frontmatter_file on the text of an existing file: [frontmatter, content]
parse_frontmatter(text) ==
    scanned_frontmatter(scan_frontmatter(file_lines(text), FALSE, <<>>, <<>>))

\* read_frontmatter_file: [crash, frontmatter, content]; opening a missing file
\* (or a folder) raises
read_frontmatter_file(fs, path, missing_is_error) ==
    IF path \notin DOMAIN fs
    THEN [crash |-> missing_is_error, frontmatter |-> None, content |-> <<>>]
    ELSE [crash |-> FALSE] @@ parse_frontmatter(fs[path])

\* frontmatter_to_string
frontmatter_to_string(frontmatter) ==
    IF ~frontmatter.isNone THEN rstrip(toml_dumps(frontmatter.kv)) ELSE <<>>

\* write_frontmatter_file that writes the content as it is given
write_frontmatter_text_norstrip(frontmatter, content) ==
    (IF ~frontmatter.isNone
     THEN rstrip(toml_dumps(frontmatter.kv)) \o <<NL>> \o SeparatorLine \o <<NL>>
     ELSE <<>>)
    \o content \o <<NL>>

\* the text write_frontmatter_file writes
write_frontmatter_text(frontmatter, content) ==
    (IF ~frontmatter.isNone
     THEN rstrip(toml_dumps(frontmatter.kv)) \o <<NL>> \o SeparatorLine \o <<NL>>
     ELSE <<>>)
    \o rstrip(content) \o <<NL>>


-----------------------------------------------------------------------------
(* The disk: [files, dirs, chapters, writes, crash].  An operation that      *)
(* raises leaves crash set; the steps after it in the handler do not run.    *)

Disk == [files |-> files, dirs |-> dirs, chapters |-> chapters,
         writes |-> <<>>, crash |-> FALSE]

\* pre before any step
NoPre == [files |-> <<>>, dirs |-> {<<>>}, chapters |-> <<>>]

dirname(path) == SubSeq(path, 1, Len(path) - 1)
basename(path) == path[Len(path)]

\* os.makedirs(directory, exist_ok=True): the folder and every folder above it
makedirs(d, folder) == d.dirs \cup {SubSeq(folder, 1, k) : k \in 0..Len(folder)}

\* write_frontmatter_file; open(path, 'w') raises when path is a folder
write_frontmatter_file(d, path, frontmatter, content) ==
    IF d.crash THEN d
    ELSE IF path \in d.dirs
    THEN [d EXCEPT !.dirs = makedirs(d, dirname(path)), !.crash = TRUE]
    ELSE [d EXCEPT !.dirs = makedirs(d, dirname(path)),
                   !.files = (path :> write_frontmatter_text(frontmatter, content))
                             @@ d.files,
                   !.writes = Append(d.writes, path)]

-----------------------------------------------------------------------------
(* Names, paths and titles *)

\* src/book.py:56
CHAPTER_INDEX == <<"i", "n", "d", "e", "x", ".", "m", "d">>
\* src/book.py:58
TOC_INDEX == <<"t", "o", "c", ".", "m", "d">>

\* the name of the book's root folder on disk
ROOT_NAME == <<"b", "k">>

\* os.path.join(folder, name)
path_join(folder, name) == Append(folder, name)

\* os.path.basename of a folder's absolute path
folder_name(folder) == IF folder = <<>> THEN ROOT_NAME ELSE folder[Len(folder)]

\* index of the dot that starts the extension, 0 when the name has none
\* (os.path.splitext: leading dots do not start an extension)
ext_dot(name) ==
    LET dots == {i \in 1..Len(name) :
                    name[i] = "." /\ \E j \in 1..(i - 1) : name[j] # "."}
    IN IF dots = {} THEN 0 ELSE CHOOSE i \in dots : \A j \in dots : j <= i

\* os.path.splitext(name)[0]
splitext_base(name) ==
    IF ext_dot(name) = 0 THEN name ELSE SubSeq(name, 1, ext_dot(name) - 1)

file_exist(d, path) == path \in DOMAIN d.files
folder_exist(d, path) == path \in d.dirs

\* an optional text: a title given to GuessedData, or the extra content
NoText == [isNone |-> TRUE, text |-> <<>>]
Text(t) == [isNone |-> FALSE, text |-> t]

\* GuessedData(source, title).title
GuessedData(source, title) ==
    IF ~title.isNone THEN title.text
    ELSE IF basename(source) = CHAPTER_INDEX
         THEN folder_name(dirname(source))
         ELSE splitext_base(basename(source))

\* get_toml(frontmatter, key, missing)
get_toml(frontmatter, key, missing) ==
    IF frontmatter.isNone THEN missing
    ELSE IF HasKey(frontmatter.kv, key) THEN ValueOf(frontmatter.kv, key)
    ELSE missing

\* ParsedFrontmatter(frontmatter, guess).title
ParsedFrontmatter(frontmatter, guess_title) ==
    get_toml(frontmatter, TOML_GENERAL_TITLE, guess_title)

\* frontmatter[key] = value on an ordered map
set_key(kv, key, value) ==
    IF HasKey(kv, key)
    THEN [i \in 1..Len(kv) |-> IF kv[i][1] = key THEN <<key, value>> ELSE kv[i]]
    ELSE Append(kv, <<key, value>>)

\* ParsedFrontmatter.generate(frontmatter)
generate(frontmatter, title) == Map(set_key(frontmatter.kv, TOML_GENERAL_TITLE, title))

\* strip_empty_start: drop the whitespace-only lines at the start
RECURSIVE strip_empty_start(_)
strip_empty_start(lines) ==
    IF lines = <<>> THEN <<>>
    ELSE IF Len(strip(Head(lines))) = 0 THEN strip_empty_start(Tail(lines))
    ELSE lines

\* a list that was meant to be reversed and is not
reverse_forgotten(s) == s

\* list.reverse()
reverse(s) == [i \in 1..Len(s) |-> s[Len(s) + 1 - i]]

\* strip_empty: drop the whitespace-only lines at the end and at the start
strip_empty(lines) == strip_empty_start(reverse(strip_empty_start(reverse(lines))))

\* the content update_frontmatter writes: the old content and the extra content,
\* each without its empty lines at the start and at the end
updated_content(content, extra_content) ==
    join(strip_empty(
        IF ~extra_content.isNone
        THEN strip_empty(splitlines(content)) \o <<<<>>>>
             \o strip_empty(splitlines(extra_content.text))
        ELSE strip_empty(splitlines(content))))

\* the frontmatter update_frontmatter starts from: {} when the file has none
start_frontmatter(r) == IF r.frontmatter.isNone THEN Map(<<>>) ELSE r.frontmatter

\* the end of update_frontmatter: r is what was read, frontmatter what
\* generate has made of it
update_frontmatter_write(d, chapter_path, extra_content, r, frontmatter) ==
    IF d.crash THEN d
    ELSE IF \/ r.frontmatter.isNone
            \/ frontmatter_to_string(r.frontmatter) # frontmatter_to_string(frontmatter)
            \/ ~extra_content.isNone
    THEN write_frontmatter_file(d, chapter_path, frontmatter,
                                updated_content(r.content, extra_content))
    ELSE d

\* update_frontmatter after the read r, with the guessed title
update_frontmatter_read(d, chapter_path, guess, extra_content, r) ==
    update_frontmatter_write(d, chapter_path, extra_content, r,
        generate(start_frontmatter(r), ParsedFrontmatter(start_frontmatter(r), guess)))

\* update_frontmatter(chapter_path, guess_arg, extra_content)
update_frontmatter(d, chapter_path, guess_arg, extra_content) ==
    update_frontmatter_read(d, chapter_path, GuessedData(chapter_path, guess_arg),
        extra_content, read_frontmatter_file(d.files, chapter_path, FALSE))

\* update_frontmatter_chapter(chapter_path, guess, content)
update_frontmatter_chapter(d, chapter_path, guess, content) ==
    update_frontmatter(d, chapter_path, guess, content)

\* update_frontmatter_index(chapter_path): the extra content is '', not None
update_frontmatter_index(d, chapter_path) ==
    update_frontmatter(d, chapter_path, NoText, Text(<<>>))

\* the loop of Chapter.update_frontmatters over the entries from the i-th on
RECURSIVE update_entries(_, _, _, _)
update_entries(d, folder, entries, i) ==
    IF i > Len(entries) \/ d.crash THEN d
    ELSE update_entries(
            update_frontmatter_chapter(d, path_join(folder, entries[i]), NoText, NoText),
            folder, entries, i + 1)

\* the book sidecar lies in the root folder
is_book_folder(d, folder) == folder = <<>> /\ <<>> \in DOMAIN d.chapters

\* Book: after update_frontmatter_index the index file is read again
index_read_again(d, index_file) ==
    IF d.crash THEN d
    ELSE [d EXCEPT !.crash = read_frontmatter_file(d.files, index_file, TRUE).crash]

\* Chapter.update_frontmatters, on the chapter loaded from the folder's sidecar
update_frontmatters(d, folder) ==
    update_entries(
        IF is_book_folder(d, folder)
        THEN index_read_again(
                update_frontmatter_index(d, path_join(folder, CHAPTER_INDEX)),
                path_join(folder, CHAPTER_INDEX))
        ELSE update_frontmatter_chapter(d, path_join(folder, CHAPTER_INDEX), NoText, NoText),
        folder, d.chapters[folder], 1)

-----------------------------------------------------------------------------
(* Python list operations on an entry list *)

\* x in list
in_list(list, x) == \E i \in 1..Len(list) : list[i] = x

\* list.index(x), counted from 0; x is in the list
index_of(list, x) ==
    (CHOOSE i \in 1..Len(list) : list[i] = x /\ \A j \in 1..(i - 1) : list[j] # x) - 1

\* a remove that leaves the entry in the list
list_remove_forgotten(list, x) == list

\* list.remove(x): the first x goes; x is in the list
list_remove(list, x) ==
    SubSeq(list, 1, index_of(list, x)) \o SubSeq(list, index_of(list, x) + 2, Len(list))

\* an insert that appends instead
list_insert_appends(list, i, x) == Append(list, x)

\* list.insert(i, x), i counted from 0
list_insert(list, i, x) ==
    SubSeq(list, 1, i) \o <<x>> \o SubSeq(list, i + 1, Len(list))

\* add_chapter that always inserts at the start
add_chapter_at_start(list, chap, add_at_start) == list_insert(list, 0, chap)

\* add_chapter that always appends
add_chapter_last(list, chap, add_at_start) == Append(list, chap)

\* Chapter.add_chapter(chap, add_at_start)
add_chapter(list, chap, add_at_start) ==
    IF add_at_start THEN list_insert(list, 0, chap) ELSE Append(list, chap)

\* Chapter.save / Book.save: the sidecar of the folder holds the entry list
save(d, folder, entries) ==
    IF d.crash THEN d
    ELSE [d EXCEPT !.chapters = (folder :> entries) @@ d.chapters,
                   !.dirs = makedirs(d, folder)]

\* get_book_or_chapter(root): the chapter of the folder, if it has a sidecar
has_chapter(d, root) == root \in DOMAIN d.chapters

-----------------------------------------------------------------------------
(* reorder *)

\* src/book.py:740
REORDER_LAST == "last"
\* src/book.py:741
REORDER_AFTER_TOC == "after_toc"
\* src/book.py:742
REORDER_BEFORE_TOC == "before_toc"

\* the loop of handle_reorder from the i-th name on: [entries, outcome, changed].
\* list has no method add: the branches that mean to add last raise.
RECURSIVE reorder_loop(_, _, _, _, _)
reorder_loop(entries, names, i, where, changed) ==
    IF i > Len(names) THEN [entries |-> entries, outcome |-> "ok", changed |-> changed]
    ELSE IF ~in_list(entries, names[i])
    THEN [entries |-> entries, outcome |-> "error", changed |-> changed]
    ELSE LET removed == list_remove(entries, names[i])
         IN IF where = REORDER_LAST
            THEN reorder_loop(Append(removed, names[i]), names, i + 1, where, TRUE)
            ELSE IF where = REORDER_AFTER_TOC
            THEN IF in_list(removed, TOC_INDEX)
                 THEN reorder_loop(
                        list_insert(removed, index_of(removed, TOC_INDEX) + 1, names[i]),
                        names, i + 1, where, TRUE)
                 ELSE [entries |-> removed, outcome |-> "crash", changed |-> TRUE]
            ELSE IF where = REORDER_BEFORE_TOC
            THEN IF in_list(removed, TOC_INDEX)
                 THEN reorder_loop(
                        list_insert(removed, index_of(removed, TOC_INDEX), names[i]),
                        names, i + 1, where, TRUE)
                 ELSE [entries |-> removed, outcome |-> "crash", changed |-> TRUE]
            ELSE [entries |-> removed, outcome |-> "crash", changed |-> TRUE]

\* the end of handle_reorder: the chapter is saved when the loop has run through
reorder_end(d, cwd, r) ==
    IF r.outcome = "ok" /\ r.changed
    THEN [disk |-> save(d, cwd, r.entries), outcome |-> "ok"]
    ELSE [disk |-> d, outcome |-> r.outcome]

\* handle_reorder in folder cwd: [disk, outcome]
handle_reorder(d, cwd, where, names) ==
    IF ~has_chapter(d, cwd) THEN [disk |-> d, outcome |-> "error"]
    ELSE reorder_end(d, cwd,
            reorder_loop(d.chapters[cwd],
                         IF where = REORDER_AFTER_TOC THEN reverse(names) ELSE names,
                         1, where, FALSE))

-----------------------------------------------------------------------------
(* remove *)

is_under(path, folder) ==
    Len(path) >= Len(folder) /\ SubSeq(path, 1, Len(folder)) = folder

restrict(f, S) == [x \in S |-> f[x]]

\* a file that was meant to be removed and stays
os_remove_forgotten(d, path) == d

\* os.remove(path)
os_remove(d, path) ==
    IF d.crash THEN d
    ELSE IF path \notin DOMAIN d.files THEN [d EXCEPT !.crash = TRUE]
    ELSE [d EXCEPT !.files = restrict(d.files, DOMAIN d.files \ {path})]

\* shutil.rmtree(folder, ignore_errors=True): the folder and all below it
rmtree(d, folder) ==
    [d EXCEPT
        !.files = restrict(d.files, {p \in DOMAIN d.files : ~is_under(p, folder)}),
        !.dirs = {p \in d.dirs : ~is_under(p, folder)},
        !.chapters = restrict(d.chapters, {p \in DOMAIN d.chapters : ~is_under(p, folder)})]

\* the file or the folder of an entry goes; an entry that is neither stays
remove_entry(d, chapter_path) ==
    IF file_exist(d, chapter_path) THEN os_remove(d, chapter_path)
    ELSE IF folder_exist(d, chapter_path) THEN rmtree(d, chapter_path)
    ELSE d

\* the loop of handle_remove from the i-th name on: [disk, entries, outcome, changed]
RECURSIVE remove_loop(_, _, _, _, _, _)
remove_loop(d, cwd, entries, names, i, changed) ==
    IF i > Len(names)
    THEN [disk |-> d, entries |-> entries, outcome |-> "ok", changed |-> changed]
    ELSE IF ~in_list(entries, names[i])
    THEN [disk |-> d, entries |-> entries, outcome |-> "error", changed |-> changed]
    ELSE remove_loop(remove_entry(d, path_join(cwd, names[i])), cwd,
                     list_remove(entries, names[i]), names, i + 1, TRUE)

\* the end of handle_remove: the chapter is saved when the loop has run through
remove_end(cwd, r) ==
    IF r.outcome = "ok" /\ r.changed
    THEN [disk |-> save(r.disk, cwd, r.entries), outcome |-> "ok"]
    ELSE [disk |-> r.disk, outcome |-> r.outcome]

\* handle_remove in folder cwd: [disk, outcome]
handle_remove(d, cwd, names) ==
    IF ~has_chapter(d, cwd) THEN [disk |-> d, outcome |-> "error"]
    ELSE remove_end(cwd, remove_loop(d, cwd, d.chapters[cwd], names, 1, FALSE))

-----------------------------------------------------------------------------
(* new page and split *)

MD_EXT == <<".", "m", "d">>

\* name_from_title(title)
name_from_title(title) ==
    LET t1 == lower(title)
        t2 == replace(t1, " ", <<"_">>)
        t3 == replace(t2, ".", <<>>)
        t4 == replace(t3, "*", <<>>)
        t5 == replace(t4, ":", <<>>)
        t6 == replace(t5, ",", <<>>)
        t7 == replace(t6, "(", <<>>)
        t8 == replace(t7, ")", <<>>)
        t9 == replace(t8, "?", <<>>)
    IN replace(t9, "/", <<"-">>)

\* line_contains(line, on)
line_contains(line, on) ==
    IF on.isNone THEN TRUE ELSE contains(lower(line), lower(on.text))

\* re_markdown_header.match(line): '#', then characters other than '#', then a space
re_markdown_header(line) ==
    /\ Len(line) >= 2
    /\ line[1] = "#"
    /\ \E k \in 2..Len(line) : line[k] = " " /\ \A j \in 2..(k - 1) : line[j] # "#"

\* re_markdown_header_tag.sub('', s): every {#...} goes
RECURSIVE re_markdown_header_tag_sub(_)
re_markdown_header_tag_sub(s) ==
    IF s = <<>> THEN <<>>
    ELSE LET close == find(SubSeq(s, 3, Len(s)), "}")
         IN IF Len(s) >= 4 /\ s[1] = "{" /\ s[2] = "#" /\ close >= 2
            THEN re_markdown_header_tag_sub(SubSeq(s, close + 3, Len(s)))
            ELSE <<Head(s)>> \o re_markdown_header_tag_sub(Tail(s))

\* the loop of markdown_extract_pages_from_lines from the i-th line on; header is
\* an optional text, out the pages yielded so far, each [title, lines]
RECURSIVE extract_loop(_, _, _, _, _, _)
extract_loop(file, on, i, header, lines, out) ==
    IF i > Len(file)
    THEN IF ~header.isNone /\ Len(strip_empty(lines)) # 0
         THEN Append(out, [title |-> header.text, lines |-> strip_empty(lines)])
         ELSE out
    ELSE LET line == rstrip(file[i])
         IN IF startswith(line, <<"#", " ">>) /\ line_contains(line, on)
            THEN LET stripped == strip_empty(lines)
                     out1 == IF Len(stripped) = 0 THEN out
                             ELSE Append(out,
                                    [title |-> IF header.isNone THEN <<>> ELSE header.text,
                                     lines |-> stripped])
                     h == strip(re_markdown_header_tag_sub(strip(Tail(line))))
                 IN extract_loop(file, on, i + 1, Text(h), <<>>, out1)
            ELSE LET l == IF re_markdown_header(line) /\ on.isNone
                          THEN Tail(line) ELSE line
                 IN extract_loop(file, on, i + 1, header, Append(lines, l), out)

\* markdown_extract_pages_from_lines(file, on)
markdown_extract_pages_from_lines(file, on) ==
    extract_loop(file, on, 1, NoText, <<>>, <<>>)

\* the names of a path text, split at '/'
RECURSIVE split_path(_)
split_path(s) ==
    IF find(s, "/") = 0 THEN <<s>>
    ELSE <<SubSeq(s, 1, find(s, "/") - 1)>>
         \o split_path(SubSeq(s, find(s, "/") + 1, Len(s)))

\* os.path.normpath on the names of a path below the root: '.' and empty names
\* go, '..' takes the name before it away
RECURSIVE normpath(_, _)
normpath(names, out) ==
    IF names = <<>> THEN out
    ELSE IF Head(names) = <<>> \/ Head(names) = <<".">> THEN normpath(Tail(names), out)
    ELSE IF Head(names) = <<".", ".">>
    THEN normpath(Tail(names), IF out = <<>> THEN out ELSE SubSeq(out, 1, Len(out) - 1))
    ELSE normpath(Tail(names), Append(out, Head(names)))

\* the number of names two paths share at their start
RECURSIVE common_length(_, _)
common_length(a, b) ==
    IF a = <<>> \/ b = <<>> \/ Head(a) # Head(b) THEN 0
    ELSE 1 + common_length(Tail(a), Tail(b))

\* the names of a path joined by '/'
RECURSIVE join_path(_)
join_path(names) ==
    IF names = <<>> THEN <<>>
    ELSE IF Len(names) = 1 THEN names[1]
    ELSE names[1] \o <<"/">> \o join_path(Tail(names))

\* os.path.relpath(dst, start), for normalised paths
relpath(dst, start) ==
    IF dst = start THEN <<".">>
    ELSE join_path([i \in 1..(Len(start) - common_length(dst, start)) |-> <<".", ".">>]
                   \o SubSeq(dst, common_length(dst, start) + 1, Len(dst)))

\* a path from the root where one from the folder of src is wanted
make_relative_to_root(src, dst) == join_path(normpath(dst, <<>>))

\* make_relative(src, dst)
make_relative(src, dst) == relpath(normpath(dst, <<>>), normpath(dirname(src), <<>>))

\* re_image.match at the start of s: [ok, alt, url, length]; a is the place of
\* the first ']' and b, counted from it, the place of the first ')'
image_at(s, a, b) ==
    IF /\ Len(s) >= 6 /\ s[1] = "!" /\ s[2] = "["
       /\ a >= 3 /\ Len(s) > a /\ s[a + 1] = "(" /\ b >= 3
    THEN [ok |-> TRUE, alt |-> SubSeq(s, 3, a - 1),
          url |-> SubSeq(s, a + 2, a + b - 1), length |-> a + b]
    ELSE [ok |-> FALSE, alt |-> <<>>, url |-> <<>>, length |-> 0]

re_image(s) == image_at(s, find(s, "]"), find(SubSeq(s, find(s, "]") + 1, Len(s)), ")"))

\* replace_image_with_replacement for a match m: an image that is a file below
\* from_folder gets the path from the folder of to_path to it
image_replacement(d, from_folder, to_path, m) ==
    IF file_exist(d, normpath(from_folder \o split_path(m.url), <<>>))
    THEN <<"!", "[">> \o m.alt \o <<"]", "(">>
         \o make_relative(to_path, from_folder \o split_path(m.url)) \o <<")">>
    ELSE <<"!", "[">> \o m.alt \o <<"]", "(">> \o m.url \o <<")">>

\* re_image.sub over the text s
RECURSIVE image_sub(_, _, _, _)
image_sub_at(d, from_folder, to_path, s, m) ==
    IF m.ok
    THEN image_replacement(d, from_folder, to_path, m)
         \o image_sub(d, from_folder, to_path, SubSeq(s, m.length + 1, Len(s)))
    ELSE <<Head(s)>> \o image_sub(d, from_folder, to_path, Tail(s))

image_sub(d, from_folder, to_path, s) ==
    IF s = <<>> THEN <<>>
    ELSE image_sub_at(d, from_folder, to_path, s, re_image(s))

\* update_images(from_path, to_path, md)
update_images(d, from_path, to_path, md) ==
    image_sub(d, dirname(from_path), to_path, md)

\* new_page(book, title, content, add_at_start) on the chapter of the folder with
\* the entry list entries in memory: [disk, entries, made]
new_page(d, folder, entries, title, content, add_at_start) ==
    LET chapter == name_from_title(title) \o MD_EXT
        chapter_path == path_join(folder, chapter)
    IN IF file_exist(d, chapter_path)
       THEN [disk |-> d, entries |-> entries, made |-> FALSE]
       ELSE [disk |-> update_frontmatter_chapter(d, chapter_path, Text(title), Text(content)),
             entries |-> add_chapter(entries, chapter, add_at_start),
             made |-> TRUE]

\* the content of a split page: the split of a page rewrites the images, the
\* split of the index does not
page_content(d, from_path, page_file, pg, rewrite) ==
    IF rewrite THEN update_images(d, from_path, page_file, join(pg.lines))
    ELSE join(pg.lines)

\* the loops of handle_split_markdown over the pages, from the k-th of order on;
\* order lists the pages by their place in the document, made those that became
\* a page: [disk, entries, made]
RECURSIVE split_pages(_, _, _, _, _, _, _, _, _, _)
split_pages_next(folder, from_path, pgs, order, k, add_at_start, rewrite, made, r) ==
    split_pages(r.disk, folder, r.entries, from_path, pgs, order, k + 1,
                add_at_start, rewrite,
                IF r.made THEN Append(made, order[k]) ELSE made)

split_pages(d, folder, entries, from_path, pgs, order, k, add_at_start, rewrite, made) ==
    IF k > Len(order) \/ d.crash
    THEN [disk |-> d, entries |-> entries, made |-> made]
    ELSE split_pages_next(folder, from_path, pgs, order, k, add_at_start, rewrite, made,
            new_page(d, folder, entries, pgs[order[k]].title,
                     page_content(d, from_path,
                        path_join(folder, name_from_title(pgs[order[k]].title) \o MD_EXT),
                        pgs[order[k]], rewrite),
                     add_at_start))

\* 1, 2, .. n
up_to(n) == [i \in 1..n |-> i]

\* what a split has to say when it ends before it has made a page
SplitEnds(d, entries, outcome) ==
    [disk |-> d, entries |-> entries, outcome |-> outcome, pages |-> <<>>,
     remaining |-> <<>>, made |-> <<>>, frontmatter |-> None]

\* what a split has to say when it has gone through its pages
SplitDone(d, entries, pgs, remaining_content, made, frontmatter) ==
    [disk |-> d, entries |-> entries, outcome |-> IF d.crash THEN "crash" ELSE "ok",
     pages |-> pgs, remaining |-> remaining_content, made |-> made,
     frontmatter |-> frontmatter]

\* split of the index, the end: book.save()
split_index_save(cwd, frontmatter, remaining_content, pgs, s) ==
    SplitDone(save(s.disk, cwd, s.entries), s.entries, pgs, remaining_content,
              s.made, frontmatter)

\* split of the index: the index keeps the remaining content, the pages go
\* into the chapter itself
split_index(d, cwd, entries, from_file_path, frontmatter, remaining_content, pgs, book_has_only_toc) ==
    split_index_save(cwd, frontmatter, remaining_content, pgs,
        split_pages(write_frontmatter_file(d, from_file_path, frontmatter,
                                           remaining_content),
                    cwd, entries, from_file_path, pgs,
                    IF book_has_only_toc THEN up_to(Len(pgs))
                    ELSE reverse(up_to(Len(pgs))),
                    1, ~book_has_only_toc, FALSE, <<>>))

\* os.mkdir unless the folder is there; it raises when a file has the name
mkdir(d, dir_path) ==
    IF d.crash \/ folder_exist(d, dir_path) THEN d
    ELSE IF file_exist(d, dir_path) THEN [d EXCEPT !.crash = TRUE]
    ELSE [d EXCEPT !.dirs = d.dirs \cup {dir_path}]

\* split of a page: the index of the new chapter, with the title of the page
\* and the remaining content
split_chapter_index(d, from_file_path, chapter_path, frontmatter, remaining_content) ==
    update_frontmatter_chapter(d, chapter_path,
        Text(ParsedFrontmatter(frontmatter, GuessedData(chapter_path, NoText))),
        Text(update_images(d, from_file_path, chapter_path, remaining_content)))

\* split of a page, the end: chapter.save() and book.save()
split_page_save(cwd, entries, dir_path, frontmatter, remaining_content, pgs, s) ==
    SplitDone(save(save(s.disk, dir_path, s.entries), cwd, entries), entries, pgs,
              remaining_content, s.made, frontmatter)

\* split of a page: the entry becomes a folder, the file goes, the folder gets
\* its index and the pages
split_page(d, cwd, entries, args_file, from_file_path, frontmatter, remaining_content, pgs) ==
    split_page_save(cwd,
        [i \in 1..Len(entries) |->
            IF entries[i] = args_file THEN splitext_base(args_file) ELSE entries[i]],
        path_join(cwd, splitext_base(args_file)), frontmatter, remaining_content, pgs,
        split_pages(
            split_chapter_index(
                mkdir(os_remove(d, from_file_path), path_join(cwd, splitext_base(args_file))),
                from_file_path,
                path_join(path_join(cwd, splitext_base(args_file)), CHAPTER_INDEX),
                frontmatter, remaining_content),
            path_join(cwd, splitext_base(args_file)), <<>>, from_file_path, pgs,
            up_to(Len(pgs)), 1, FALSE, TRUE, <<>>))

\* the split of one file once the title page is apart from the pages
split_parts(d, cwd, entries, args_file, from_file_path, frontmatter, remaining_content, pgs, book_has_only_toc) ==
    IF Len(pgs) = 0 THEN SplitEnds(d, entries, "error")
    ELSE IF args_file = CHAPTER_INDEX
    THEN split_index(d, cwd, entries, from_file_path, frontmatter, remaining_content,
                     pgs, book_has_only_toc)
    ELSE IF ~in_list(entries, args_file) THEN SplitEnds(d, entries, "error")
    ELSE split_page(d, cwd, entries, args_file, from_file_path, frontmatter,
                    remaining_content, pgs)

\* a split that goes on to write in print mode
split_extracted_print_ignored(d, cwd, entries, args_file, from_file_path, print, book_has_only_toc, r, all) ==
    IF r.crash THEN SplitEnds([d EXCEPT !.crash = TRUE], entries, "crash")
    ELSE IF Len(all) = 0 THEN SplitEnds(d, entries, "error")
    ELSE IF Len(strip(all[1].title)) = 0
    THEN split_parts(d, cwd, entries, args_file, from_file_path, r.frontmatter,
                     join(all[1].lines), Tail(all), book_has_only_toc)
    ELSE split_parts(d, cwd, entries, args_file, from_file_path, r.frontmatter,
                     <<>>, all, book_has_only_toc)

\* the split of one file once it is read (r) and its pages are extracted (all)
split_extracted(d, cwd, entries, args_file, from_file_path, print, book_has_only_toc, r, all) ==
    IF r.crash THEN SplitEnds([d EXCEPT !.crash = TRUE], entries, "crash")
    ELSE IF print THEN SplitEnds(d, entries, "printed")
    ELSE IF Len(all) = 0 THEN SplitEnds(d, entries, "error")
    ELSE IF Len(strip(all[1].title)) = 0
    THEN split_parts(d, cwd, entries, args_file, from_file_path, r.frontmatter,
                     join(all[1].lines), Tail(all), book_has_only_toc)
    ELSE split_parts(d, cwd, entries, args_file, from_file_path, r.frontmatter,
                     <<>>, all, book_has_only_toc)

\* the split of one file once it is read
split_read(d, cwd, entries, args_file, from_file_path, on, print, book_has_only_toc, r) ==
    split_extracted(d, cwd, entries, args_file, from_file_path, print, book_has_only_toc,
        r, markdown_extract_pages_from_lines(splitlines(r.content), on))

\* the body of the loop of handle_split_markdown for one file:
\* [disk, entries, outcome, pages, remaining, made, frontmatter]
split_file(d, cwd, entries, args_file, on, print, book_has_only_toc) ==
    split_read(d, cwd, entries, args_file, path_join(cwd, args_file), on, print,
        book_has_only_toc,
        read_frontmatter_file(d.files, path_join(cwd, args_file), TRUE))

\* the loop of handle_split_markdown over args.files from the i-th on; every
\* return in the body ends the command
RECURSIVE split_loop(_, _, _, _, _, _, _, _)
split_loop_next(cwd, args_files, i, on, print, book_has_only_toc, r) ==
    IF i = Len(args_files) \/ r.outcome # "ok" THEN r
    ELSE split_loop(r.disk, cwd, r.entries, args_files, i + 1, on, print,
                    book_has_only_toc)

split_loop(d, cwd, entries, args_files, i, on, print, book_has_only_toc) ==
    split_loop_next(cwd, args_files, i, on, print, book_has_only_toc,
        split_file(d, cwd, entries, args_files[i], on, print, book_has_only_toc))

\* handle_split_markdown in folder cwd
handle_split_markdown(d, cwd, args_files, on, print) ==
    IF ~has_chapter(d, cwd) THEN SplitEnds(d, <<>>, "error")
    ELSE split_loop(d, cwd, d.chapters[cwd], args_files, 1, on, print,
                    Len(d.chapters[cwd]) = 1 /\ in_list(d.chapters[cwd], TOC_INDEX))

-----------------------------------------------------------------------------
(* The page graph of handle_build.  A page is known by its place in the page *)
(* list; 0 stands for None.                                                  *)

NoPage == 0

\* Page(chapter, source, target, html_body, title): the links start empty;
\* is_toc says that the body is TOC_HTML_BODY
Page(chapter, source, is_toc) ==
    [chapter |-> chapter, source |-> source, is_toc |-> is_toc,
     next_page |-> NoPage, prev_page |-> NoPage, parent |-> NoPage, children |-> <<>>]

\* root_page.children.append(child_page); child_page.parent = root_page
add_child(pgs, root_page, child_page) ==
    [pgs EXCEPT ![root_page].children = Append(@, child_page),
                ![child_page].parent = root_page]

\* a section's pages are in the list: its root page becomes a child
add_section(root_page, r) ==
    IF r.crash THEN [pages |-> r.pages, crash |-> TRUE]
    ELSE [pages |-> add_child(r.pages, root_page, r.root), crash |-> FALSE]

\* what generate_pages has to say: [pages, crash, root]
Generated(g, root_page) == [pages |-> g.pages, crash |-> g.crash, root |-> root_page]

\* Chapter.generate_pages for the chapter of the folder, g = [pages, crash] being
\* the page list so far; create_page reads the index file and raises without it
RECURSIVE generate_pages(_, _, _)

\* the body of the loop of generate_pages for one entry
generate_entry(d, source_folder, chapter, root_page, g) ==
    IF file_exist(d, path_join(source_folder, chapter)) \/ chapter = TOC_INDEX
    THEN [pages |-> add_child(
                        Append(g.pages, Page(chapter, path_join(source_folder, chapter),
                                             chapter = TOC_INDEX)),
                        root_page, Len(g.pages) + 1),
          crash |-> FALSE]
    ELSE IF folder_exist(d, path_join(source_folder, chapter))
    THEN IF has_chapter(d, path_join(source_folder, chapter))
         THEN add_section(root_page,
                          generate_pages(d, path_join(source_folder, chapter), g))
         ELSE g
    ELSE g

\* the loop of generate_pages over the entries from the i-th on
RECURSIVE generate_entries(_, _, _, _, _, _)
generate_entries(d, source_folder, entries, i, root_page, g) ==
    IF i > Len(entries) \/ g.crash THEN g
    ELSE generate_entries(d, source_folder, entries, i + 1, root_page,
            generate_entry(d, source_folder, entries[i], root_page, g))

generate_pages(d, source_folder, g) ==
    IF read_frontmatter_file(d.files, path_join(source_folder, CHAPTER_INDEX), TRUE).crash
    THEN [pages |-> g.pages, crash |-> TRUE, root |-> NoPage]
    ELSE Generated(
            generate_entries(d, source_folder, d.chapters[source_folder], 1,
                Len(g.pages) + 1,
                [pages |-> Append(g.pages,
                              Page(CHAPTER_INDEX, path_join(source_folder, CHAPTER_INDEX),
                                   FALSE)),
                 crash |-> FALSE]),
            Len(g.pages) + 1)

\* Page.post_generation that sets prev_page and forgets next_page
post_generation_prev_only(pgs) ==
    [i \in 1..Len(pgs) |-> [pgs[i] EXCEPT !.prev_page = i - 1]]

\* the loop of Page.post_generation from the i-th page on
RECURSIVE post_generation_loop(_, _, _)
post_generation_loop(pgs, i, last_page) ==
    IF i > Len(pgs) THEN pgs
    ELSE post_generation_loop(
            IF last_page # NoPage
            THEN [pgs EXCEPT ![i].prev_page = last_page, ![last_page].next_page = i]
            ELSE [pgs EXCEPT ![i].prev_page = last_page],
            i + 1, i)

\* Page.post_generation(pages)
post_generation(pgs) == post_generation_loop(pgs, 1, NoPage)

-----------------------------------------------------------------------------
(* move, add and new *)

\* a move that leaves the page where it was as well
move_file_copies(d, path, new_path, r) ==
    IF d.crash THEN d
    ELSE IF r.crash THEN [d EXCEPT !.crash = TRUE]
    ELSE write_frontmatter_file(d, new_path, r.frontmatter,
                                update_images(d, path, new_path, r.content))

\* handle_move on one listed chapter, after the read r of its file: the file is
\* removed, its images are rewritten and it is written below the destination
move_file(d, path, new_path, r) ==
    IF d.crash THEN d
    ELSE IF r.crash THEN [d EXCEPT !.crash = TRUE]
    ELSE write_frontmatter_file(os_remove(d, path), new_path, r.frontmatter,
                                update_images(os_remove(d, path), path, new_path, r.content))

\* the loop of handle_move from the i-th path on, entries the list of the
\* destination in memory: [disk, entries, outcome]
RECURSIVE move_loop(_, _, _, _, _)
move_loop(d, destination, entries, paths, i) ==
    IF d.crash THEN [disk |-> d, entries |-> entries, outcome |-> "crash"]
    ELSE IF i > Len(paths) THEN [disk |-> d, entries |-> entries, outcome |-> "ok"]
    ELSE IF ~has_chapter(d, dirname(paths[i]))
    THEN [disk |-> [d EXCEPT !.crash = TRUE], entries |-> entries, outcome |-> "crash"]
    ELSE IF ~in_list(d.chapters[dirname(paths[i])], basename(paths[i]))
    THEN [disk |-> d, entries |-> entries, outcome |-> "error"]
    ELSE move_loop(move_file(d, paths[i], path_join(destination, basename(paths[i])),
                             read_frontmatter_file(d.files, paths[i], TRUE)),
                   destination, Append(entries, basename(paths[i])), paths, i + 1)

\* the end of handle_move: the destination is saved when the loop has run through
move_end(destination, r) ==
    IF r.outcome = "ok"
    THEN [disk |-> save(r.disk, destination, r.entries), outcome |-> "ok"]
    ELSE [disk |-> r.disk, outcome |-> r.outcome]

\* handle_move(destination, chapters), the chapters as paths below the root:
\* [disk, outcome]
handle_move(d, destination, paths) ==
    IF ~has_chapter(d, destination) THEN [disk |-> d, outcome |-> "error"]
    ELSE move_end(destination, move_loop(d, destination, d.chapters[destination], paths, 1))

\* handle_add on a folder: a folder without sidecar becomes a section
add_section_folder(d, entries, chapter, chapter_path) ==
    IF has_chapter(d, chapter_path)
    THEN [disk |-> d, entries |-> entries, changed |-> FALSE]
    ELSE [disk |-> update_frontmatter_chapter(save(d, chapter_path, <<>>),
                       path_join(chapter_path, CHAPTER_INDEX), NoText, NoText),
          entries |-> add_chapter(entries, chapter, FALSE),
          changed |-> TRUE]

\* an add that takes the index file for a page like any other
add_entry_any_file(d, cwd, entries, chapter) ==
    IF file_exist(d, path_join(cwd, chapter))
    THEN [disk |-> update_frontmatter_chapter(d, path_join(cwd, chapter), NoText, NoText),
          entries |-> add_chapter(entries, chapter, FALSE),
          changed |-> TRUE]
    ELSE IF folder_exist(d, path_join(cwd, chapter))
    THEN add_section_folder(d, entries, chapter, path_join(cwd, chapter))
    ELSE [disk |-> d, entries |-> entries, changed |-> FALSE]

\* handle_add on one name: [disk, entries, changed]
add_entry(d, cwd, entries, chapter) ==
    IF file_exist(d, path_join(cwd, chapter))
    THEN IF path_join(cwd, chapter) = path_join(cwd, CHAPTER_INDEX)
         THEN [disk |-> d, entries |-> entries, changed |-> FALSE]
         ELSE [disk |-> update_frontmatter_chapter(d, path_join(cwd, chapter), NoText, NoText),
               entries |-> add_chapter(entries, chapter, FALSE),
               changed |-> TRUE]
    ELSE IF folder_exist(d, path_join(cwd, chapter))
    THEN add_section_folder(d, entries, chapter, path_join(cwd, chapter))
    ELSE [disk |-> d, entries |-> entries, changed |-> FALSE]

\* the loop of handle_add from the i-th name on: [disk, entries, changed]
RECURSIVE add_loop(_, _, _, _, _, _)
add_loop_next(cwd, names, i, changed, r) ==
    add_loop(r.disk, cwd, r.entries, names, i + 1, changed \/ r.changed)

add_loop(d, cwd, entries, names, i, changed) ==
    IF i > Len(names) \/ d.crash
    THEN [disk |-> d, entries |-> entries, changed |-> changed]
    ELSE add_loop_next(cwd, names, i, changed, add_entry(d, cwd, entries, names[i]))

add_end(cwd, r) ==
    [disk |-> IF r.changed THEN save(r.disk, cwd, r.entries) ELSE r.disk,
     outcome |-> IF r.disk.crash THEN "crash" ELSE "ok"]

\* handle_add in folder cwd: [disk, outcome]
handle_add(d, cwd, names) ==
    IF ~has_chapter(d, cwd) THEN [disk |-> d, outcome |-> "error"]
    ELSE add_end(cwd, add_loop(d, cwd, d.chapters[cwd], names, 1, FALSE))

\* the loop of handle_new_page from the i-th title on: [disk, entries, changed]
RECURSIVE new_page_loop(_, _, _, _, _, _)
new_page_loop_next(cwd, titles, i, changed, r) ==
    new_page_loop(r.disk, cwd, r.entries, titles, i + 1, changed \/ r.made)

new_page_loop(d, cwd, entries, titles, i, changed) ==
    IF i > Len(titles) \/ d.crash
    THEN [disk |-> d, entries |-> entries, changed |-> changed]
    ELSE new_page_loop_next(cwd, titles, i, changed,
                            new_page(d, cwd, entries, titles[i], <<>>, FALSE))

\* the end of handle_new_page: changed has no value when no page was made, and
\* reading it raises
new_page_end(cwd, r) ==
    IF r.disk.crash \/ ~r.changed
    THEN [disk |-> [r.disk EXCEPT !.crash = TRUE], outcome |-> "crash"]
    ELSE [disk |-> save(r.disk, cwd, r.entries), outcome |-> "ok"]

\* handle_new_page in folder cwd: [disk, outcome]
handle_new_page(d, cwd, titles) ==
    IF ~has_chapter(d, cwd) THEN [disk |-> d, outcome |-> "error"]
    ELSE new_page_end(cwd, new_page_loop(d, cwd, d.chapters[cwd], titles, 1, FALSE))

-----------------------------------------------------------------------------
(* The table of contents.  The HTML of a list is kept as its tags: an item   *)
(* names its page, whose target and title make the link.                     *)

Tag(name, page) == [tag |-> name, page |-> page]

\* Page.generate_html_list(extension, indent, file) of page p
RECURSIVE generate_html_list(_, _)

\* the loop over the children of p from the i-th on
RECURSIVE html_list_children(_, _, _)
html_list_children(pgs, p, i) ==
    IF i > Len(pgs[p].children) THEN <<>>
    ELSE generate_html_list(pgs, pgs[p].children[i]) \o html_list_children(pgs, p, i + 1)

generate_html_list(pgs, p) ==
    <<Tag("li", p)>>
    \o (IF Len(pgs[p].children) > 0
        THEN <<Tag("ul", NoPage)>> \o html_list_children(pgs, p, 1) \o <<Tag("/ul", NoPage)>>
        ELSE <<>>)
    \o <<Tag("/li", NoPage)>>

\* the first loop of generate_toc from the i-th page on: [children, found_toc]
RECURSIVE toc_children(_, _, _, _, _)
toc_children(pgs, list, i, found_toc, children) ==
    IF i > Len(list) THEN [children |-> children, found_toc |-> found_toc]
    ELSE toc_children(pgs, list, i + 1, found_toc \/ pgs[list[i]].is_toc,
                      IF found_toc THEN Append(children, list[i]) ELSE children)

\* a choice that takes every page whether there is a marker or not
toc_choice_all(list, r) == list

\* children = pages if len(children) == 0 and not found_toc else children
toc_choice(list, r) ==
    IF Len(r.children) = 0 /\ ~r.found_toc THEN list ELSE r.children

\* the second loop of generate_toc from the i-th child on
RECURSIVE toc_html(_, _, _, _)
toc_html(pgs, children, i, index_source) ==
    IF i > Len(children) THEN <<>>
    ELSE (IF pgs[children[i]].source # index_source
          THEN generate_html_list(pgs, children[i]) ELSE <<>>)
         \o toc_html(pgs, children, i + 1, index_source)

\* generate_toc(pages, extension, index_source, target)
generate_toc(pgs, list, index_source) ==
    toc_html(pgs, toc_choice(list, toc_children(pgs, list, 1, FALSE, <<>>)), 1, index_source)

-----------------------------------------------------------------------------
(* The images of a build *)

\* list_images_in_markdown(md): the URLs of the matches of re_image
RECURSIVE list_images_in_markdown(_)
list_images_in_markdown(md) ==
    IF md = <<>> THEN <<>>
    ELSE IF re_image(md).ok
    THEN <<re_image(md).url>>
         \o list_images_in_markdown(SubSeq(md, re_image(md).length + 1, Len(md)))
    ELSE list_images_in_markdown(Tail(md))

\* urllib.parse.urlparse(image).scheme == '': no name and colon start the URL
no_scheme(url) ==
    \/ find(url, ":") <= 1
    \/ \E j \in 1..(find(url, ":") - 1) : url[j] \in {"/", "?", "#", "."}

\* urllib.parse.urlparse(image).path of a URL without scheme: up to '?' or '#'
url_path(url) ==
    SubSeq(url, 1,
           (CHOOSE k \in 1..(Len(url) + 1) :
               /\ k = Len(url) + 1 \/ url[k] \in {"?", "#"}
               /\ \A j \in 1..(k - 1) : url[j] \notin {"?", "#"}) - 1)

\* Chapter.iterate_markdown_files of the chapter of the folder, out = [files,
\* crash] being what was yielded so far; Chapter.load raises when the folder of
\* an entry has no sidecar
RECURSIVE iterate_markdown_files(_, _, _)

iterate_entry(d, folder, chapter, out) ==
    IF file_exist(d, path_join(folder, chapter))
    THEN [out EXCEPT !.files = Append(@, path_join(folder, chapter))]
    ELSE IF folder_exist(d, path_join(folder, chapter))
    THEN IF has_chapter(d, path_join(folder, chapter))
         THEN iterate_markdown_files(d, path_join(folder, chapter), out)
         ELSE [out EXCEPT !.crash = TRUE]
    ELSE out

RECURSIVE iterate_entries(_, _, _, _, _)
iterate_entries(d, folder, entries, i, out) ==
    IF i > Len(entries) \/ out.crash THEN out
    ELSE iterate_entries(d, folder, entries, i + 1,
                         iterate_entry(d, folder, entries[i], out))

iterate_markdown_files(d, folder, out) ==
    iterate_entries(d, folder, d.chapters[folder], 1,
                    [out EXCEPT !.files = Append(@, path_join(folder, CHAPTER_INDEX))])

\* Book.iterate_markdown_files: the index of the book is read first
book_iterate_markdown_files(d) ==
    IF read_frontmatter_file(d.files, <<CHAPTER_INDEX>>, TRUE).crash
    THEN [files |-> <<>>, crash |-> TRUE]
    ELSE iterate_markdown_files(d, <<>>, [files |-> <<>>, crash |-> FALSE])

\* shutil.copyfile(source_path, target_path) raises when there is no such file;
\* out = [copied, crash], copied the source paths copied so far
copyfile(d, source_path, out) ==
    IF file_exist(d, source_path)
    THEN [out EXCEPT !.copied = Append(@, source_path)]
    ELSE [out EXCEPT !.crash = TRUE]

\* the loop of handle_build over the images of one markdown file
RECURSIVE copy_images(_, _, _, _, _)
copy_images(d, markdown_folder, images, k, out) ==
    IF k > Len(images) \/ out.crash THEN out
    ELSE copy_images(d, markdown_folder, images, k + 1,
            IF no_scheme(images[k])
            THEN copyfile(d, normpath(markdown_folder \o split_path(url_path(images[k])),
                                      <<>>), out)
            ELSE out)

\* the loop of handle_build over the markdown files mds.files; the generator
\* raises after the last of them when mds.crash
RECURSIVE copy_loop(_, _, _, _)
copy_loop(d, mds, i, out) ==
    IF out.crash THEN out
    ELSE IF i > Len(mds.files) THEN [out EXCEPT !.crash = mds.crash]
    ELSE copy_loop(d, mds, i + 1,
            IF read_frontmatter_file(d.files, mds.files[i], TRUE).crash
            THEN [out EXCEPT !.crash = TRUE]
            ELSE copy_images(d, dirname(mds.files[i]),
                    list_images_in_markdown(
                        read_frontmatter_file(d.files, mds.files[i], TRUE).content),
                    1, out))

\* handle_build: for md in book.iterate_markdown_files(): ... : [copied, crash]
build_images(d) ==
    copy_loop(d, book_iterate_markdown_files(d), 1, [copied |-> <<>>, crash |-> FALSE])

-----------------------------------------------------------------------------
(* import *)

\* markdown_extract_pages_from_file(path): the lines keep their line ends
markdown_extract_pages_from_file(d, path) ==
    markdown_extract_pages_from_lines(file_lines(d.files[path]), NoText)

\* the end of handle_import_markdown: index.md is written with the title of the
\* page, the book is made with the TOC marker, saved, and its frontmatters are
\* updated
import_book(d, root, pg) ==
    update_frontmatters(
        save(write_frontmatter_file(d, path_join(root, CHAPTER_INDEX),
                 generate(Map(<<>>),
                          ParsedFrontmatter(Map(<<>>),
                              GuessedData(path_join(root, CHAPTER_INDEX), Text(pg.title)))),
                 join(pg.lines)),
             root, <<TOC_INDEX>>),
        root)

\* handle_import_markdown after the pages were extracted: pages[0] raises when
\* there is no page
import_pages(d, root, print, pgs) ==
    IF print THEN [disk |-> d, outcome |-> "printed"]
    ELSE IF Len(pgs) > 1 THEN [disk |-> d, outcome |-> "error"]
    ELSE IF has_chapter(d, root) THEN [disk |-> d, outcome |-> "error"]
    ELSE IF Len(pgs) = 0 THEN [disk |-> [d EXCEPT !.crash = TRUE], outcome |-> "crash"]
    ELSE [disk |-> import_book(d, root, pgs[1]), outcome |-> "ok"]

\* handle_import_markdown in the folder root, the book root when there is a
\* book: [disk, outcome]
handle_import_markdown(d, root, path, print) ==
    IF ~file_exist(d, path) THEN [disk |-> d, outcome |-> "error"]
    ELSE import_pages(d, root, print, markdown_extract_pages_from_file(d, path))

-----------------------------------------------------------------------------
(* Stat.  A quotient is kept as numerator and denominator; a denominator 0   *)
(* marks a division by zero.                                                 *)

\* len(contents.split(None)): the words are the runs of characters that are
\* no whitespace
word_count(contents) ==
    Cardinality({i \in 1..Len(contents) :
                    /\ ~IsSpace(contents[i])
                    /\ i = 1 \/ IsSpace(contents[i - 1])})

\* Stat()
NewStat == [num_chapters |-> 0, empty_chapters |-> 0, total_words |-> 0]

\* a count that takes only the pages from 50 words on for short ones
stat_count_from_50(stat, count, is_chapter) ==
    IF is_chapter
    THEN IF count < 50
         THEN [stat EXCEPT !.num_chapters = @ + 1]
         ELSE IF count < 2000
         THEN [stat EXCEPT !.num_chapters = @ + 1, !.empty_chapters = @ + 1]
         ELSE [stat EXCEPT !.num_chapters = @ + 1, !.total_words = @ + count]
    ELSE stat

\* Stat.update after the words were counted
stat_count(stat, count, is_chapter) ==
    IF is_chapter
    THEN IF count < 50
         THEN [stat EXCEPT !.num_chapters = @ + 1, !.empty_chapters = @ + 1]
         ELSE IF count < 2000
         THEN [stat EXCEPT !.num_chapters = @ + 1, !.empty_chapters = @ + 1]
         ELSE [stat EXCEPT !.num_chapters = @ + 1, !.total_words = @ + count]
    ELSE stat

\* Stat.update(contents, name, is_chapter)
stat_update(stat, contents, is_chapter) ==
    stat_count(stat, word_count(contents), is_chapter)

\* a / b
true_div(a, b) == [num |-> a, den |-> b]

\* the quotients of Stat.print_estimate, one after the other
estimate_percent(stat, estimated) ==
    [total_words |-> stat.total_words,
     estimated |-> estimated,
     percent |-> IF estimated.num > 0 /\ estimated.den > 0
                 THEN true_div(stat.total_words * 100 * estimated.den, estimated.num)
                 ELSE true_div(0, 1)]

estimate_sum(stat, average) ==
    estimate_percent(stat,
        true_div(stat.total_words * average.den + stat.empty_chapters * average.num,
                 average.den))

\* Stat.print_estimate(): [total_words, estimated, percent]
print_estimate(stat) ==
    estimate_sum(stat,
        IF stat.num_chapters - stat.empty_chapters > 0
        THEN true_div(stat.total_words, stat.num_chapters - stat.empty_chapters)
        ELSE true_div(0, 1))

-----------------------------------------------------------------------------
(* The books the commands start from *)

PAGE_P == <<"p", ".", "m", "d">>
PAGE_Q == <<"q", ".", "m", "d">>
FILE_A == <<"a", ".", "m", "d">>
FILE_FIRST == <<"f", "i", "r", "s", "t", ".", "m", "d">>
FILE_SECOND == <<"s", "e", "c", "o", "n", "d", ".", "m", "d">>
NO_SUCH == <<"n", "o", ".", "m", "d">>

TitleFirst == <<"F", "i", "r", "s", "t">>
TitleSecond == <<"S", "e", "c", "o", "n", "d">>
Text1 == <<"t", "e", "x", "t", "1">>
Text2 == <<"t", "e", "x", "t", "2">>

\* a top-level header line
HeaderLine(title) == <<"#", " ">> \o title

\* a text from its lines, each ended by a newline
Lines(ls) == concat([i \in 1..Len(ls) |-> ls[i] \o <<NL>>])

\* the text of a page that update_frontmatter has given the title t
Titled(t, body) ==
    write_frontmatter_text(Map(<<<<TOML_GENERAL_TITLE, t>>>>), body)

\* # First / text1 / # Second / text2
DocFirstSecond ==
    Lines(<<HeaderLine(TitleFirst), Text1, HeaderLine(TitleSecond), Text2>>)

\* a titled page: leading content, then the headers A and a, whose slugs agree
DocIntroAa ==
    Titled(<<"T">>,
           Lines(<<<<"i", "n">>, <<>>, HeaderLine(<<"A">>), <<"x">>, <<>>,
                   HeaderLine(<<"a">>), <<"y">>>>))

\* a titled page without any header
DocPlain == Titled(<<"N">>, Lines(<<<<"n", "o">>>>))

\* a page without any header that has no frontmatter yet
DocBare == Lines(<<<<"n", "o">>>>)

\* the file update_frontmatters makes of the TOC marker entry
DocToc == Titled(<<"t", "o", "c">>, <<>>)

IndexDocs == {DocFirstSecond, DocIntroAa}
PageDocs == {DocFirstSecond, DocIntroAa}

\* a section folder of the root chapter
FOLDER_S == <<"s">>

\* the entry lists of the root chapter at the start
StartEntries ==
    {<<TOC_INDEX>>, <<PAGE_P, TOC_INDEX, PAGE_Q>>, <<PAGE_P, PAGE_Q>>,
     <<TOC_INDEX, FOLDER_S>>}

\* files of the root folder that no chapter lists
StrayFiles == {<<>>, <<FILE_FIRST>>}

\* the markdown files of a book at the start: the index, the pages of the root
\* chapter, the stray files and, with the section, its index and its page
StartFiles(entries, idoc, pdoc, stray) ==
    [path \in {<<CHAPTER_INDEX>>}
              \cup {<<entries[i]>> : i \in {k \in 1..Len(entries) : entries[k] # FOLDER_S}}
              \cup {<<stray[i]>> : i \in 1..Len(stray)}
              \cup (IF in_list(entries, FOLDER_S)
                    THEN {<<FOLDER_S, CHAPTER_INDEX>>, <<FOLDER_S, PAGE_Q>>} ELSE {}) |->
        IF path = <<CHAPTER_INDEX>> THEN idoc
        ELSE IF path = <<TOC_INDEX>> THEN DocToc
        ELSE IF path = <<PAGE_P>> THEN pdoc
        ELSE IF path = <<FOLDER_S, PAGE_Q>> THEN DocBare
        ELSE DocPlain]

Init ==
    /\ \E entries \in StartEntries, idoc \in IndexDocs, pdoc \in PageDocs,
          stray \in StrayFiles :
          /\ in_list(entries, PAGE_P) \/ pdoc = DocFirstSecond
          /\ files = StartFiles(entries, idoc, pdoc, stray)
          /\ chapters = IF in_list(entries, FOLDER_S)
                        THEN (<<>> :> entries) @@ (<<FOLDER_S>> :> <<PAGE_Q>>)
                        ELSE (<<>> :> entries)
          /\ dirs = IF in_list(entries, FOLDER_S) THEN {<<>>, <<FOLDER_S>>} ELSE {<<>>}
    /\ writes = <<>>
    /\ last = [cmd |-> "none"]
    /\ pre = NoPre
    /\ pages = <<>>
    /\ pc = "cmd"
    /\ steps = 0

MaxCmds == 2

\* one command has run: the disk it leaves, and what there is to say of it
Ran(d, info) ==
    /\ steps < MaxCmds
    /\ pc = "cmd"
    /\ files' = d.files
    /\ dirs' = d.dirs
    /\ chapters' = d.chapters
    /\ writes' = d.writes
    /\ last' = info
    /\ pre' = [files |-> files, dirs |-> dirs, chapters |-> chapters]
    /\ steps' = steps + 1
    /\ UNCHANGED <<pages, pc>>

\* the folders that hold a sidecar
Chapters == DOMAIN chapters

UpdateRan(folder, d) ==
    Ran(d, [cmd |-> "update", cwd |-> folder,
            outcome |-> IF d.crash THEN "crash" ELSE "ok",
            again |-> /\ last.cmd = "update"
                      /\ last.cwd = folder
                      /\ last.outcome = "ok"])

\* handle_init with --update runs update_frontmatters on the book; a section
\* has the same method
UpdateFrontmatters ==
    \E folder \in Chapters : UpdateRan(folder, update_frontmatters(Disk, folder))

MaxArgs == 2

\* the names a command line may give in folder cwd: the entries of its chapter
\* and a name that is no entry
ArgNames(cwd) ==
    (IF cwd \in Chapters THEN {chapters[cwd][i] : i \in 1..Len(chapters[cwd])} ELSE {})
    \cup {NO_SUCH}

ArgLists(names) == UNION {[1..k -> names] : k \in 1..MaxArgs}

ReorderRan(cwd, where, names, r) ==
    Ran(r.disk, [cmd |-> "reorder", cwd |-> cwd, where |-> where,
                 names |-> names, outcome |-> r.outcome])

Reorder ==
    \E cwd \in dirs, where \in {REORDER_LAST, REORDER_AFTER_TOC, REORDER_BEFORE_TOC} :
        \E names \in ArgLists(ArgNames(cwd)) :
            ReorderRan(cwd, where, names, handle_reorder(Disk, cwd, where, names))

RemoveRan(cwd, names, r) ==
    Ran(r.disk, [cmd |-> "remove", cwd |-> cwd, names |-> names,
                 outcome |-> IF r.disk.crash THEN "crash" ELSE r.outcome])

Remove ==
    \E cwd \in dirs :
        \E names \in ArgLists(ArgNames(cwd)) :
            RemoveRan(cwd, names, handle_remove(Disk, cwd, names))

\* the filters of a split: none, or a text the header has to hold
SplitFilters == {NoText, Text(<<"s", "e">>)}

MaxSplitFiles == 1

\* the files a split command may name
SplitLists(names) == UNION {[1..k -> names] : k \in 1..MaxSplitFiles}

SplitRan(cwd, args_files, on, print, r) ==
    Ran(r.disk, [cmd |-> "split", cwd |-> cwd, files |-> args_files, on |-> on,
                 print |-> print, outcome |-> r.outcome, pages |-> r.pages,
                 remaining |-> r.remaining, made |-> r.made,
                 frontmatter |-> r.frontmatter])

Split ==
    \E cwd \in dirs, on \in SplitFilters, print \in BOOLEAN :
        \E args_files \in SplitLists(ArgNames(cwd) \cup {CHAPTER_INDEX}) :
            SplitRan(cwd, args_files, on, print,
                     handle_split_markdown(Disk, cwd, args_files, on, print))

Next == UpdateFrontmatters \/ Reorder \/ Remove \/ Split

Spec == Init /\ [][Next]_vars

\* C3: a second run of update_frontmatters on the tree the first run has just
\* updated writes no file at all.
C3_SecondRunWritesNothing ==
    (last.cmd = "update" /\ last.again) => writes = <<>>


-----------------------------------------------------------------------------
(* What the commands leave behind *)

\* the last command was a reorder with a TOC mode, in a chapter whose entry list
\* has no TOC marker, and every name given is an entry
ReorderWithoutToc ==
    /\ last.cmd = "reorder"
    /\ last.where \in {REORDER_BEFORE_TOC, REORDER_AFTER_TOC}
    /\ last.cwd \in DOMAIN pre.chapters
    /\ ~in_list(pre.chapters[last.cwd], TOC_INDEX)
    /\ \A i \in 1..Len(last.names) : in_list(pre.chapters[last.cwd], last.names[i])

\* the last n entries of a list, as a set
LastEntries(list, n) == {list[i] : i \in (Len(list) - n + 1)..Len(list)}

\* C4: reorder with before_toc or after_toc on a chapter without TOC marker
\* completes normally and every named entry ends up at the end of the saved
\* entry list.
C4_FallsBackToAppendLast ==
    ReorderWithoutToc =>
        /\ last.outcome = "ok"
        /\ LastEntries(chapters[last.cwd],
                       Cardinality({last.names[i] : i \in 1..Len(last.names)}))
             = {last.names[i] : i \in 1..Len(last.names)}

\* C5: a remove that names something that is no entry of the chapter reports an
\* error and leaves the saved entry list and every file and folder as they were.
C5_AbortsWithoutMutation ==
    (/\ last.cmd = "remove"
     /\ last.cwd \in DOMAIN pre.chapters
     /\ \E i \in 1..Len(last.names) : ~in_list(pre.chapters[last.cwd], last.names[i]))
    => /\ last.outcome = "error"
       /\ files = pre.files
       /\ dirs = pre.dirs
       /\ chapters = pre.chapters

\* the last command was a split of the index of a chapter, and it completed
IndexSplit ==
    /\ last.cmd = "split"
    /\ last.files = <<CHAPTER_INDEX>>
    /\ last.outcome = "ok"

\* the last command was a split of another file than the index, and it completed
PageSplit ==
    /\ last.cmd = "split"
    /\ Len(last.files) = 1
    /\ last.files[1] # CHAPTER_INDEX
    /\ last.outcome = "ok"

\* the file name of the k-th header segment of the last split
PageName(k) == name_from_title(last.pages[k].title) \o MD_EXT

\* the header segments of the last split that became a page, in header order
MadeInOrder ==
    \A i, j \in 1..Len(last.made) : i < j => last.made[i] < last.made[j]

\* the names of the pages the last split has made, in the order it made them
MadeNames == [i \in 1..Len(last.made) |-> PageName(last.made[i])]

\* what reading a file gives
ReadBack(fs, path) == read_frontmatter_file(fs, path, TRUE)

\* C6: splitting index.md without filter when the entry list is exactly [toc.md]
\* appends the new pages in the order of their headers; the body with the
\* headers First and Second gives [toc.md, first.md, second.md], and first.md
\* and second.md hold text1 and text2.
C6_OnlyTocAppendsInHeaderOrder ==
    (IndexSplit /\ last.on = NoText /\ pre.chapters[last.cwd] = <<TOC_INDEX>>) =>
        /\ MadeInOrder
        /\ chapters[last.cwd] = <<TOC_INDEX>> \o MadeNames
        /\ (/\ pre.files[path_join(last.cwd, CHAPTER_INDEX)] = DocFirstSecond
            /\ path_join(last.cwd, FILE_FIRST) \notin DOMAIN pre.files) =>
              /\ chapters[last.cwd] = <<TOC_INDEX, FILE_FIRST, FILE_SECOND>>
              /\ ReadBack(files, path_join(last.cwd, FILE_FIRST)).content
                   = Text1 \o <<NL>>
              /\ ReadBack(files, path_join(last.cwd, FILE_SECOND)).content
                   = Text2 \o <<NL>>

\* C6 witness: the index with the headers First and Second was split in a book
\* that listed only toc.md
C6_Witness ==
    /\ IndexSplit
    /\ last.on = NoText
    /\ pre.chapters[last.cwd] = <<TOC_INDEX>>
    /\ pre.files[path_join(last.cwd, CHAPTER_INDEX)] = DocFirstSecond
    /\ chapters[last.cwd] = <<TOC_INDEX, FILE_FIRST, FILE_SECOND>>
    /\ files[path_join(last.cwd, FILE_FIRST)]
         = <<"t", "i", "t", "l", "e", " ", "=", " ", "\"", "F", "i", "r", "s", "t", "\"",
             NL, "+", "+", "+", NL, "t", "e", "x", "t", "1", NL>>

\* C7 as stated: splitting the index of a book with pre-existing entries leaves
\* the new pages in the saved list in the reverse of the order of their headers.
C7_ReverseOfHeaderOrder ==
    (IndexSplit /\ pre.chapters[last.cwd] # <<TOC_INDEX>>) =>
        \A i, j \in 1..Len(last.made) :
            last.made[i] < last.made[j] =>
                index_of(chapters[last.cwd], PageName(last.made[j]))
                    < index_of(chapters[last.cwd], PageName(last.made[i]))

\* C7, amended: splitting the index of a book with pre-existing entries leaves
\* the new pages in the saved list in the order of their headers: the pages are
\* taken last header first and each is inserted at the start.
C7_HeaderOrder ==
    (IndexSplit /\ pre.chapters[last.cwd] # <<TOC_INDEX>>) =>
        \A i, j \in 1..Len(last.made) :
            last.made[i] < last.made[j] =>
                index_of(chapters[last.cwd], PageName(last.made[i]))
                    < index_of(chapters[last.cwd], PageName(last.made[j]))

\* C7 witness: the index with the headers First and Second was split in a book
\* with other entries, and first.md stands before second.md
C7_Witness ==
    /\ IndexSplit
    /\ pre.chapters[last.cwd] = <<PAGE_P, PAGE_Q>>
    /\ Len(last.made) = 2
    /\ chapters[last.cwd] = <<FILE_FIRST, FILE_SECOND, PAGE_P, PAGE_Q>>

\* C8: splitting the index of a book with pre-existing entries puts every new
\* page before all pre-existing entries, keeps those in their order, and leaves
\* the leading content and the frontmatter in index.md.
C8_NewPagesBeforeOldEntries ==
    (IndexSplit /\ pre.chapters[last.cwd] # <<TOC_INDEX>>) =>
        /\ Len(chapters[last.cwd]) = Len(last.made) + Len(pre.chapters[last.cwd])
        /\ SubSeq(chapters[last.cwd], Len(last.made) + 1, Len(chapters[last.cwd]))
             = pre.chapters[last.cwd]
        /\ {chapters[last.cwd][i] : i \in 1..Len(last.made)}
             = {MadeNames[i] : i \in 1..Len(last.made)}
        /\ \A i \in 1..Len(last.made) :
              /\ path_join(last.cwd, chapters[last.cwd][i]) \notin DOMAIN pre.files
              /\ path_join(last.cwd, chapters[last.cwd][i]) \in DOMAIN files
        /\ ReadBack(files, path_join(last.cwd, CHAPTER_INDEX)).frontmatter
             = ReadBack(pre.files, path_join(last.cwd, CHAPTER_INDEX)).frontmatter
        /\ ReadBack(files, path_join(last.cwd, CHAPTER_INDEX)).content
             = rstrip(last.remaining) \o <<NL>>
        /\ (pre.files[path_join(last.cwd, CHAPTER_INDEX)] = DocIntroAa
            /\ last.on = NoText) =>
              files[path_join(last.cwd, CHAPTER_INDEX)]
                = <<"t", "i", "t", "l", "e", " ", "=", " ", "\"", "T", "\"", NL,
                    "+", "+", "+", NL, "i", "n", NL>>

\* C8 witness: an index with leading content was split in the book [p.md,
\* toc.md, q.md], and the new page stands first
C8_Witness ==
    /\ IndexSplit
    /\ last.on = NoText
    /\ pre.chapters[last.cwd] = <<PAGE_P, TOC_INDEX, PAGE_Q>>
    /\ pre.files[path_join(last.cwd, CHAPTER_INDEX)] = DocIntroAa
    /\ chapters[last.cwd] = <<FILE_A, PAGE_P, TOC_INDEX, PAGE_Q>>
    /\ last.remaining = <<"i", "n">>

\* the folder a split page becomes
SplitFolder == path_join(last.cwd, splitext_base(last.files[1]))

\* C9: splitting the listed page p.md replaces that entry, where it stands, by
\* the folder name p and keeps every other entry; p.md is gone; the folder p
\* has an index.md with the remaining content and a sidecar that lists the
\* split pages in the order of their headers.
C9_PageBecomesSection ==
    PageSplit =>
        /\ in_list(pre.chapters[last.cwd], last.files[1])
        /\ chapters[last.cwd]
             = [i \in 1..Len(pre.chapters[last.cwd]) |->
                   IF pre.chapters[last.cwd][i] = last.files[1]
                   THEN splitext_base(last.files[1])
                   ELSE pre.chapters[last.cwd][i]]
        /\ path_join(last.cwd, last.files[1]) \notin DOMAIN files
        /\ SplitFolder \in dirs
        /\ ReadBack(files, path_join(SplitFolder, CHAPTER_INDEX)).content
             = rstrip(last.remaining) \o <<NL>>
        /\ MadeInOrder
        /\ chapters[SplitFolder] = MadeNames
        /\ (pre.files[path_join(last.cwd, last.files[1])] = DocFirstSecond
            /\ last.on = NoText) =>
              /\ chapters[SplitFolder] = <<FILE_FIRST, FILE_SECOND>>
              /\ ReadBack(files, path_join(SplitFolder, FILE_SECOND)).content
                   = Text2 \o <<NL>>

\* C9 witness: p.md with the headers First and Second was split in the book
\* [p.md, toc.md, q.md]
C9_Witness ==
    /\ PageSplit
    /\ last.files = <<PAGE_P>>
    /\ pre.chapters[last.cwd] = <<PAGE_P, TOC_INDEX, PAGE_Q>>
    /\ chapters[last.cwd] = << <<"p">>, TOC_INDEX, PAGE_Q >>
    /\ chapters[path_join(last.cwd, <<"p">>)] = <<FILE_FIRST, FILE_SECOND>>
    /\ path_join(last.cwd, PAGE_P) \notin DOMAIN files
    /\ path_join(path_join(last.cwd, <<"p">>), CHAPTER_INDEX) \in DOMAIN files

\* the folder the pages of the last split go to
SplitTarget == IF last.files[1] = CHAPTER_INDEX THEN last.cwd ELSE SplitFolder

\* C10: after a split that completed, every header segment is a page: the file
\* named after its header holds its text and is listed in the saved entry list
\* of the target chapter.
C10_EverySegmentBecomesPage ==
    (last.cmd = "split" /\ Len(last.files) = 1 /\ last.outcome = "ok") =>
        \A k \in 1..Len(last.pages) :
            /\ path_join(SplitTarget, PageName(k)) \in DOMAIN files
            /\ ReadBack(files, path_join(SplitTarget, PageName(k))).content
                 = join(last.pages[k].lines) \o <<NL>>
            /\ in_list(chapters[SplitTarget], PageName(k))

\* the names given are entries of the chapter, and no name is given twice
ReorderOfEntries ==
    /\ last.cmd = "reorder"
    /\ last.cwd \in DOMAIN pre.chapters
    /\ \A i \in 1..Len(last.names) : in_list(pre.chapters[last.cwd], last.names[i])
    /\ \A i, j \in 1..Len(last.names) : last.names[i] = last.names[j] => i = j

\* the entries of a list that are not among the names, in their order
Others(list, names) == SelectSeq(list, LAMBDA x : ~in_list(names, x))

\* the entries before the first x, and those after it
Before(list, x) == SubSeq(list, 1, index_of(list, x))
After(list, x) == SubSeq(list, index_of(list, x) + 2, Len(list))

UpdatedPaths(folder) ==
    {path_join(folder, CHAPTER_INDEX)}
    \cup {path_join(folder, pre.chapters[folder][i]) : i \in 1..Len(pre.chapters[folder])}

\* the title a file is to have: the one its frontmatter had, else the guess
TitleToHave(path) ==
    IF path \in DOMAIN pre.files
    THEN get_toml(ReadBack(pre.files, path).frontmatter, TOML_GENERAL_TITLE,
                  GuessedData(path, NoText))
    ELSE GuessedData(path, NoText)

\* the files of the paths have their titles
Titles(paths) ==
    \A path \in paths :
        /\ path \in DOMAIN files
        /\ ~ReadBack(files, path).frontmatter.isNone
        /\ get_toml(ReadBack(files, path).frontmatter, TOML_GENERAL_TITLE, <<>>)
             = TitleToHave(path)

\* C19: update_frontmatters on a chapter completes whatever its entries are,
\* page files, the TOC marker or section folders, and then the index file and
\* the file of every entry have a title in their frontmatter: the title they
\* had, else the one guessed from the path.
C19_EveryEntryGetsItsTitle ==
    last.cmd = "update" =>
        /\ last.outcome = "ok"
        /\ Titles({path \in UpdatedPaths(last.cwd) : path \notin dirs})

\* what holds of it: with no folder among the entries the update completes and
\* gives the titles; with one it raises at the first, and the files up to it
\* have their titles
UpdateUpToFirstFolder ==
    last.cmd = "update" =>
        IF \E i \in 1..Len(pre.chapters[last.cwd]) :
               path_join(last.cwd, pre.chapters[last.cwd][i]) \in pre.dirs
        THEN /\ last.outcome = "crash"
             /\ Titles({path_join(last.cwd, CHAPTER_INDEX)}
                       \cup {path_join(last.cwd, pre.chapters[last.cwd][i]) :
                               i \in {k \in 1..Len(pre.chapters[last.cwd]) :
                                        \A j \in 1..k :
                                            path_join(last.cwd, pre.chapters[last.cwd][j])
                                              \notin pre.dirs}})
        ELSE /\ last.outcome = "ok"
             /\ Titles(UpdatedPaths(last.cwd))

\* C21: a split in print mode changes nothing, whatever file and filter it is
\* given: the saved entry lists, the sidecars, the folders and the files, their
\* content too, are as before the command, and no file is written.
C21_PrintChangesNothing ==
    (last.cmd = "split" /\ last.print) =>
        /\ files = pre.files
        /\ dirs = pre.dirs
        /\ chapters = pre.chapters
        /\ writes = <<>>

\* C21 witness: index.md with the headers First and Second was split in print
\* mode, without filter, in a book that is as it was
C21_Witness ==
    /\ last.cmd = "split"
    /\ last.print
    /\ last.on.isNone
    /\ last.cwd = <<>>
    /\ last.files = <<CHAPTER_INDEX>>
    /\ last.outcome = "printed"
    /\ pre.files[<<CHAPTER_INDEX>>] = DocFirstSecond
    /\ files = pre.files
    /\ chapters = pre.chapters

\* how often x is in the list
Occurrences(list, x) == Cardinality({i \in 1..Len(list) : list[i] = x})

\* the same entries with the same multiplicities
Permutation(a, b) ==
    /\ Len(a) = Len(b)
    /\ \A i \in 1..Len(a) : Occurrences(a, a[i]) = Occurrences(b, a[i])

\* a reorder in a chapter, one of its names no entry of the list
ReorderOfNoEntry ==
    /\ last.cmd = "reorder"
    /\ last.cwd \in DOMAIN pre.chapters
    /\ \E i \in 1..Len(last.names) : ~in_list(pre.chapters[last.cwd], last.names[i])

\* C23: the list a reorder leaves saved is a permutation of the list it loaded,
\* the entries that were not named in their old relative order, and no other
\* chapter's list changes; a reorder that names an entry not in the list leaves
\* the saved list as it was.
C23_ReorderSavesPermutation ==
    last.cmd = "reorder" =>
        /\ DOMAIN chapters = DOMAIN pre.chapters
        /\ \A folder \in DOMAIN chapters :
              folder # last.cwd => chapters[folder] = pre.chapters[folder]
        /\ last.cwd \in DOMAIN pre.chapters =>
              /\ Permutation(chapters[last.cwd], pre.chapters[last.cwd])
              /\ Others(chapters[last.cwd], last.names)
                    = Others(pre.chapters[last.cwd], last.names)
        /\ ReorderOfNoEntry => chapters = pre.chapters

\* C23 witness: a reorder saved another list than it loaded, two entries or
\* more of it not named
C23_Witness ==
    /\ last.cmd = "reorder"
    /\ last.outcome = "ok"
    /\ last.cwd \in DOMAIN pre.chapters
    /\ chapters[last.cwd] # pre.chapters[last.cwd]
    /\ Len(Others(pre.chapters[last.cwd], last.names)) >= 2

\* the other case of C23: the first name was an entry and the second was not,
\* and the list is as it was
C23_NoEntryCase ==
    /\ ReorderOfNoEntry
    /\ Len(last.names) = 2
    /\ in_list(pre.chapters[last.cwd], last.names[1])
    /\ last.where = REORDER_LAST
    /\ last.outcome = "error"
    /\ Len(pre.chapters[last.cwd]) >= 2
    /\ pre.chapters[last.cwd][Len(pre.chapters[last.cwd])] # last.names[1]
    /\ chapters = pre.chapters
-----------------------------------------------------------------------------
(* A book with images, from handle_init on *)

IMAGE_I == <<"i">>
IMAGE_N == <<"n">>
UP_IMAGE_I == <<".", ".", "/", "i">>

\* ![a](url)
ImageRef(url) == <<"!", "[", "a", "]", "(">> \o url \o <<")">>

\* a page with an image that is in its folder and, below the header H, one that
\* is not on disk and the first again
DocImages ==
    Lines(<<ImageRef(IMAGE_I), HeaderLine(<<"H">>), ImageRef(IMAGE_N), ImageRef(IMAGE_I)>>)

\* a page of a section with the image of the folder above and the header Index
DocUpImage ==
    Lines(<<<<"u", "p">>, ImageRef(UP_IMAGE_I), HeaderLine(<<"I", "n", "d", "e", "x">>),
            <<"x">>>>)

\* the book handle_init has just made in a folder that holds p.md, the image i
\* and the folder s with q.md: the sidecar lists toc.md, and update_frontmatters
\* has written index.md and toc.md
FreshBook ==
    [files |-> (<<CHAPTER_INDEX>> :> Titled(ROOT_NAME, <<>>))
               @@ (<<TOC_INDEX>> :> DocToc)
               @@ (<<PAGE_P>> :> DocImages)
               @@ (<<IMAGE_I>> :> <<>>)
               @@ (<<FOLDER_S, PAGE_Q>> :> DocUpImage),
     dirs |-> {<<>>, <<FOLDER_S>>},
     chapters |-> (<<>> :> <<TOC_INDEX>>),
     writes |-> <<>>,
     crash |-> FALSE]

\* the book after `add p.md s` in the root and `add q.md` in s
GrownBook ==
    handle_add(handle_add(FreshBook, <<>>, <<PAGE_P, FOLDER_S>>).disk,
               <<FOLDER_S>>, <<PAGE_Q>>).disk

InitBook ==
    /\ \E book \in {FreshBook, GrownBook} :
          /\ files = book.files
          /\ dirs = book.dirs
          /\ chapters = book.chapters
    /\ writes = <<>>
    /\ last = [cmd |-> "none"]
    /\ pre = NoPre
    /\ pages = <<>>
    /\ pc = "cmd"
    /\ steps = 0

\* the names of the files and folders of a folder
Listing(cwd) ==
    {basename(p) : p \in {q \in (DOMAIN files) \cup dirs : q # <<>> /\ dirname(q) = cwd}}

AddRan(cwd, names, r) ==
    Ran(r.disk, [cmd |-> "add", cwd |-> cwd, names |-> names, outcome |-> r.outcome])

Add ==
    \E cwd \in dirs :
        \E names \in ArgLists(Listing(cwd) \cup {CHAPTER_INDEX, NO_SUCH}) :
            AddRan(cwd, names, handle_add(Disk, cwd, names))

\* the titles a new command may give
NewTitles == {<<"I", "n", "d", "e", "x">>, <<"P">>, <<"N", "e", "w">>}

NewPageRan(cwd, titles, r) ==
    Ran(r.disk, [cmd |-> "new", cwd |-> cwd, titles |-> titles, outcome |-> r.outcome])

NewPage ==
    \E cwd \in dirs :
        \E titles \in ArgLists(NewTitles) :
            NewPageRan(cwd, titles, handle_new_page(Disk, cwd, titles))

\* the paths a move may name: the entries of every chapter and a path that is none
MovePaths ==
    UNION {{path_join(folder, chapters[folder][i]) : i \in 1..Len(chapters[folder])} :
              folder \in Chapters}
    \cup {<<NO_SUCH>>}

MoveRan(destination, paths, r) ==
    Ran(r.disk, [cmd |-> "move", destination |-> destination, paths |-> paths,
                 outcome |-> r.outcome])

Move ==
    \E destination \in dirs :
        \E paths \in ArgLists(MovePaths) :
            MoveRan(destination, paths, handle_move(Disk, destination, paths))

NextBook == Add \/ NewPage \/ Remove \/ Reorder \/ Move \/ Split

SpecBook == InitBook /\ [][NextBook]_vars


\* the last command was a move to a chapter of pages that are listed in the
\* chapter of their folder, another than the destination, and whose files
\* exist; no page is named twice
MoveOfListedPages ==
    /\ last.cmd = "move"
    /\ last.destination \in DOMAIN pre.chapters
    /\ \A i \in 1..Len(last.paths) :
          /\ dirname(last.paths[i]) \in DOMAIN pre.chapters
          /\ dirname(last.paths[i]) # last.destination
          /\ in_list(pre.chapters[dirname(last.paths[i])], basename(last.paths[i]))
          /\ last.paths[i] \in DOMAIN pre.files
    /\ \A i, j \in 1..Len(last.paths) : last.paths[i] = last.paths[j] => i = j

\* the file names of the paths of the last move, in the order given
MovedNames == [i \in 1..Len(last.paths) |-> basename(last.paths[i])]

\* C12: after a move of listed pages to a destination chapter each page file is
\* gone from its source folder and is in the destination folder with the same
\* frontmatter, the names are appended at the end of the destination's saved
\* entry list, and the source chapter's saved list still holds the moved entry.
C12_MovedButStillListed ==
    MoveOfListedPages =>
        /\ last.outcome = "ok"
        /\ \A i \in 1..Len(last.paths) :
              /\ last.paths[i] \notin DOMAIN files
              /\ path_join(last.destination, basename(last.paths[i])) \in DOMAIN files
              /\ ReadBack(files, path_join(last.destination, basename(last.paths[i]))).frontmatter
                   = ReadBack(pre.files, last.paths[i]).frontmatter
              /\ in_list(chapters[dirname(last.paths[i])], basename(last.paths[i]))
        /\ chapters[last.destination] = pre.chapters[last.destination] \o MovedNames

\* C12 witness: p.md, titled p, was moved from the root into the section s
C12_Witness ==
    /\ MoveOfListedPages
    /\ last.paths = <<<<PAGE_P>>>>
    /\ last.destination = <<FOLDER_S>>
    /\ <<PAGE_P>> \notin DOMAIN files
    /\ ReadBack(files, <<FOLDER_S, PAGE_P>>).frontmatter
         = Map(<<<<TOML_GENERAL_TITLE, <<"p">>>>>>)
    /\ chapters[<<FOLDER_S>>] = <<PAGE_Q, PAGE_P>>
    /\ in_list(chapters[<<>>], PAGE_P)

\* the image references of a text, in their order
RECURSIVE ImagesOf(_)
ImagesOf(s) ==
    IF s = <<>> THEN <<>>
    ELSE IF re_image(s).ok
    THEN <<re_image(s)>> \o ImagesOf(SubSeq(s, re_image(s).length + 1, Len(s)))
    ELSE ImagesOf(Tail(s))

\* the file a reference in a file of the folder denotes
Target(folder, url) == normpath(folder \o split_path(url), <<>>)

\* the references of the new text are those of the old one: one whose target is
\* on disk now denotes, from the new folder, the same file; any other is as it was
ImagesFollow(onDisk, from_folder, to_folder, old, new) ==
    /\ Len(ImagesOf(old)) = Len(ImagesOf(new))
    /\ \A k \in 1..Len(ImagesOf(old)) :
          IF Target(from_folder, ImagesOf(old)[k].url) \in onDisk
          THEN /\ Target(to_folder, ImagesOf(new)[k].url)
                    = Target(from_folder, ImagesOf(old)[k].url)
               /\ ImagesOf(new)[k].alt = ImagesOf(old)[k].alt
          ELSE ImagesOf(new)[k] = ImagesOf(old)[k]

\* the files on disk when the i-th page of the last move is rewritten: the pages
\* up to it are gone from their folders, those before it are in the destination
OnDiskAtMove(i) ==
    ((DOMAIN pre.files) \ {last.paths[j] : j \in 1..i})
    \cup {path_join(last.destination, basename(last.paths[j])) : j \in 1..(i - 1)}

\* the folder the last split has made of its page, and the page's text before
SplitSource == path_join(last.cwd, last.files[1])
SplitInto == path_join(last.cwd, splitext_base(last.files[1]))

\* C13: in a moved page, and in every fragment a split of a page writes to the
\* new folder, each image reference whose target is on disk relative to the
\* source file denotes the same file from the new place, and each reference
\* whose target is not on disk is unchanged character for character.
C13_ImagesFollowThePage ==
    /\ MoveOfListedPages =>
          \A i \in 1..Len(last.paths) :
              ImagesFollow(OnDiskAtMove(i), dirname(last.paths[i]), last.destination,
                           ReadBack(pre.files, last.paths[i]).content,
                           ReadBack(files, path_join(last.destination,
                                                     basename(last.paths[i]))).content)
    /\ PageSplit =>
          /\ ImagesFollow((DOMAIN pre.files) \ {SplitSource}, last.cwd, SplitInto,
                          last.remaining,
                          ReadBack(files, path_join(SplitInto, CHAPTER_INDEX)).content)
          /\ \A k \in 1..Len(last.made) :
                ImagesFollow((DOMAIN pre.files) \ {SplitSource}, last.cwd, SplitInto,
                             join(last.pages[last.made[k]].lines),
                             ReadBack(files, path_join(SplitInto, PageName(last.made[k]))).content)

\* C13 witness: p.md, with the image i of the root and the missing image n, was
\* moved into the section s
C13_Witness ==
    /\ MoveOfListedPages
    /\ last.paths = <<<<PAGE_P>>>>
    /\ last.destination = <<FOLDER_S>>
    /\ [k \in 1..3 |-> ImagesOf(ReadBack(pre.files, <<PAGE_P>>).content)[k].url]
         = <<IMAGE_I, IMAGE_N, IMAGE_I>>
    /\ [k \in 1..3 |-> ImagesOf(ReadBack(files, <<FOLDER_S, PAGE_P>>).content)[k].url]
         = <<UP_IMAGE_I, IMAGE_N, UP_IMAGE_I>>

\* the split of p.md has written the references of its fragments from the folder p
C13_SplitCase ==
    /\ PageSplit
    /\ last.files = <<PAGE_P>>
    /\ ImagesOf(last.remaining) # <<>>
    /\ [k \in 1..2 |-> ImagesOf(ReadBack(files, <<<<"p">>, <<"h", ".", "m", "d">>>>).content)[k].url]
         = <<IMAGE_N, UP_IMAGE_I>>

C18_SplitAndNewOfIndex ==
    \/ /\ PageSplit
       /\ last.files = <<PAGE_Q>>
       /\ \E k \in 1..Len(last.pages) : PageName(k) = CHAPTER_INDEX
    \/ /\ last.cmd = "new"
       /\ last.cwd \in DOMAIN pre.chapters
       /\ \E i \in 1..Len(last.titles) :
             name_from_title(last.titles[i]) \o MD_EXT = CHAPTER_INDEX

\* a new-page command in a chapter, every title of which names a file that is
\* there already
NewOfExistingPages ==
    /\ last.cmd = "new"
    /\ last.cwd \in DOMAIN pre.chapters
    /\ Len(last.titles) > 0
    /\ \A i \in 1..Len(last.titles) :
           path_join(last.cwd, name_from_title(last.titles[i]) \o MD_EXT)
               \in DOMAIN pre.files

\* C22: a new-page command given only titles whose file exists already skips
\* each of them, leaves the saved entry list and all files unchanged, and
\* returns normally
C22_ExistingPagesSkippedQuietly ==
    NewOfExistingPages =>
        /\ last.outcome = "ok"
        /\ files = pre.files
        /\ chapters = pre.chapters

\* what holds of such a command: it changes neither the files nor the lists,
\* and it ends with an exception
NewOfExistingRaises ==
    NewOfExistingPages =>
        /\ last.outcome = "crash"
        /\ files = pre.files
        /\ dirs = pre.dirs
        /\ chapters = pre.chapters
-----------------------------------------------------------------------------
(* A document to import, in a folder that may be a book already *)

FILE_DOC == <<"d", "o", "c", ".", "m", "d">>

\* one header and its text
DocOneHeader == Lines(<<HeaderLine(TitleFirst), Text1>>)

\* text before the only header
DocIntroHeader == Lines(<<<<"i", "n">>, HeaderLine(<<"A">>), <<"x">>>>)

\* a header without text below it, alone and after some text
DocHeaderOnly == Lines(<<HeaderLine(TitleFirst)>>)
DocIntroBareHeader == Lines(<<<<"i", "n">>, HeaderLine(<<"A">>)>>)

ImportDocs ==
    {DocOneHeader, DocFirstSecond, DocIntroHeader, DocHeaderOnly, DocIntroBareHeader,
     DocBare, <<>>}

InitImport ==
    /\ \E doc \in ImportDocs, is_book \in BOOLEAN :
          /\ files = IF is_book
                     THEN (<<FILE_DOC>> :> doc) @@ (<<CHAPTER_INDEX>> :> Titled(ROOT_NAME, <<>>))
                          @@ (<<TOC_INDEX>> :> DocToc)
                     ELSE (<<FILE_DOC>> :> doc)
          /\ chapters = IF is_book THEN (<<>> :> <<TOC_INDEX>>) ELSE <<>>
    /\ dirs = {<<>>}
    /\ writes = <<>>
    /\ last = [cmd |-> "none"]
    /\ pre = NoPre
    /\ pages = <<>>
    /\ pc = "cmd"
    /\ steps = 0

ImportRan(path, print, r) ==
    Ran(r.disk, [cmd |-> "import", path |-> path, print |-> print,
                 outcome |-> r.outcome])

Import ==
    \E path \in {<<FILE_DOC>>, <<NO_SUCH>>}, print \in BOOLEAN :
        ImportRan(path, print, handle_import_markdown(Disk, <<>>, path, print))

NextImport == Import \/ NewPage

SpecImport == InitImport /\ [][NextImport]_vars

\* the top-level header lines of a text
HeaderLines(text) ==
    SelectSeq(splitlines(text), LAMBDA line : startswith(rstrip(line), <<"#", " ">>))

\* the last command was an import, not in print mode, of a document that exists
ImportOfDocument ==
    /\ last.cmd = "import"
    /\ ~last.print
    /\ last.path \in DOMAIN pre.files

\* C17: an import fails, with nothing written, when the document has more than
\* one top-level header or a book exists already; in every other case it writes
\* index.md with the header as title and a book sidecar that lists [toc.md].
C17_ImportFailsOrMakesBook ==
    ImportOfDocument =>
        IF Len(HeaderLines(pre.files[last.path])) > 1 \/ <<>> \in DOMAIN pre.chapters
        THEN /\ last.outcome = "error"
             /\ files = pre.files
             /\ chapters = pre.chapters
        ELSE /\ last.outcome = "ok"
             /\ <<>> \in DOMAIN chapters
             /\ chapters[<<>>] = <<TOC_INDEX>>
             /\ <<CHAPTER_INDEX>> \in DOMAIN files
             /\ Len(HeaderLines(pre.files[last.path])) = 1 =>
                   ReadBack(files, <<CHAPTER_INDEX>>).frontmatter
                     = Map(<<<<TOML_GENERAL_TITLE,
                               strip(Tail(rstrip(HeaderLines(pre.files[last.path])[1])))>>>>)

\* a document that is one header with text below it makes a book
ImportOfOneHeaderWithText ==
    (ImportOfDocument /\ pre.files[last.path] = DocOneHeader /\ <<>> \notin DOMAIN pre.chapters)
    => /\ last.outcome = "ok"
       /\ chapters = (<<>> :> <<TOC_INDEX>>)
       /\ files[<<CHAPTER_INDEX>>] = Titled(TitleFirst, Text1)
       /\ files[<<TOC_INDEX>>] = DocToc
-----------------------------------------------------------------------------
(* Stat on its own: pages are counted one after the other, then the estimate *)
(* is printed                                                                *)

MaxPages == 3

\* a text of n words
Words(n) == [i \in 1..(2 * n) |-> IF i % 2 = 1 THEN "w" ELSE " "]

\* the contents of the pages: 49, 1999, 2000 and 2500 words
StatContents == {Words(49), Words(1999), Words(2000), Words(2500)}

InitStat ==
    /\ files = <<>>
    /\ dirs = {<<>>}
    /\ chapters = <<>>
    /\ writes = <<>>
    /\ last = [cmd |-> "build", stat |-> NewStat]
    /\ pre = NoPre
    /\ pages = <<>>
    /\ pc = "count"
    /\ steps = 0

\* Page.from_file: stat.update(content, chapter, is_chapter); pages keeps what
\* was counted
StatUpdate ==
    /\ pc = "count"
    /\ Len(pages) < MaxPages
    /\ \E contents \in StatContents, is_chapter \in BOOLEAN :
          /\ last' = [cmd |-> "build", stat |-> stat_update(last.stat, contents, is_chapter)]
          /\ pages' = Append(pages, [words |-> Len(contents) \div 2,
                                     is_chapter |-> is_chapter])
    /\ UNCHANGED <<files, dirs, chapters, writes, pre, pc, steps>>

\* handle_build: stat.print_estimate()
StatPrintEstimate ==
    /\ pc = "count"
    /\ last' = [cmd |-> "build", stat |-> last.stat, printed |-> print_estimate(last.stat)]
    /\ pc' = "printed"
    /\ UNCHANGED <<files, dirs, chapters, writes, pre, pages, steps>>

NextStat == StatUpdate \/ StatPrintEstimate

SpecStat == InitStat /\ [][NextStat]_vars

\* the word counts of the counted pages, those below 2000 words and the others
Counted == SelectSeq(pages, LAMBDA p : p.is_chapter)
ShortPages == Len(SelectSeq(Counted, LAMBDA p : p.words < 2000))
LongPages == Len(SelectSeq(Counted, LAMBDA p : p.words >= 2000))

RECURSIVE SumOfWords(_)
SumOfWords(ps) == IF ps = <<>> THEN 0 ELSE Head(ps).words + SumOfWords(Tail(ps))
LongWords == SumOfWords(SelectSeq(Counted, LAMBDA p : p.words >= 2000))

\* the greatest common divisor of two numbers that are not negative
RECURSIVE Gcd(_, _)
Gcd(a, b) == IF b = 0 THEN a ELSE Gcd(b, a % b)

\* a quotient in lowest terms
Lowest(a) == [num |-> a.num \div Gcd(a.num, a.den), den |-> a.den \div Gcd(a.num, a.den)]

\* two quotients are the same number, and neither is a division by zero
SameNumber(a, b) == a.den # 0 /\ b.den # 0 /\ Lowest(a) = Lowest(b)

\* C20: every counted page below 2000 words is in the short count and every
\* other adds its words to total_words; the estimate is total_words +
\* short * (total_words / long pages) and the percentage total_words * 100 /
\* estimate; when no page has 2000 words nothing is divided by zero and the
\* percentage is 0; one counted page of 2500 words gives 2500, 2500 and 100.
C20_EstimateFromCounts ==
    pc = "printed" =>
        /\ last.stat.empty_chapters = ShortPages
        /\ last.stat.total_words = LongWords
        /\ last.printed.total_words = LongWords
        /\ last.printed.estimated.den # 0
        /\ last.printed.percent.den # 0
        /\ LongPages > 0 =>
              /\ SameNumber(last.printed.estimated,
                            [num |-> LongWords * LongPages + ShortPages * LongWords,
                             den |-> LongPages])
              /\ SameNumber(last.printed.percent,
                            [num |-> LongWords * 100 * LongPages,
                             den |-> LongWords * LongPages + ShortPages * LongWords])
        /\ LongPages = 0 =>
              /\ SameNumber(last.printed.estimated, [num |-> 0, den |-> 1])
              /\ SameNumber(last.printed.percent, [num |-> 0, den |-> 1])
        /\ (Len(Counted) = 1 /\ Counted[1].words = 2500) =>
              /\ last.printed.total_words = 2500
              /\ SameNumber(last.printed.estimated, [num |-> 2500, den |-> 1])
              /\ SameNumber(last.printed.percent, [num |-> 100, den |-> 1])

\* C20 witness: the estimate of a page of 2500 words and two short ones, of 49
\* and of 1999 words, was printed: 2500 words of about 7500, a third
C20_Witness ==
    /\ pc = "printed"
    /\ [i \in 1..Len(Counted) |-> Counted[i].words] = <<49, 2500, 1999>>
    /\ last.printed.total_words = 2500
    /\ SameNumber(last.printed.estimated, [num |-> 7500, den |-> 1])
    /\ SameNumber(last.printed.percent, [num |-> 100, den |-> 3])
-----------------------------------------------------------------------------
(* The frontmatter codec on its own: write a file, then read it back *)

MaxBodyLen == 4

CodecAlphabet == {"a", " ", NL, "+"}
CodecBodies == UNION {[1..k -> CodecAlphabet] : k \in 0..MaxBodyLen}
CodecMaps ==
    {None, Map(<<>>), Map(<<<<TOML_GENERAL_TITLE, <<"T", " ", "a">>>>>>),
     Map(<<<<<<"k">>, <<>>>>, <<TOML_GENERAL_TITLE, <<"+", "+", "+">>>>>>)}

CodecPath == <<<<"f", ".", "m", "d">>>>

InitCodec ==
    /\ files = <<>>
    /\ dirs = {<<>>}
    /\ chapters = <<>>
    /\ writes = <<>>
    /\ \E m \in CodecMaps, b \in CodecBodies :
          last = [cmd |-> "codec", frontmatter |-> m, content |-> b]
    /\ pre = NoPre
    /\ pages = <<>>
    /\ pc = "input"
    /\ steps = 0

CodecWritten(d) ==
    /\ files' = d.files
    /\ dirs' = d.dirs
    /\ writes' = d.writes

\* write_frontmatter_file(path, m, b)
CodecWrite ==
    /\ pc = "input"
    /\ CodecWritten(write_frontmatter_file(Disk, CodecPath, last.frontmatter, last.content))
    /\ pc' = "written"
    /\ UNCHANGED <<chapters, last, pre, pages, steps>>

\* read_frontmatter_file(path)
CodecRead ==
    /\ pc = "written"
    /\ last' = [cmd |-> "codec", frontmatter |-> last.frontmatter,
                content |-> last.content,
                read |-> read_frontmatter_file(files, CodecPath, TRUE)]
    /\ pc' = "read"
    /\ UNCHANGED <<files, dirs, chapters, writes, pre, pages, steps>>

NextCodec == CodecWrite \/ CodecRead

SpecCodec == InitCodec /\ [][NextCodec]_vars

\* some line of the text is a frontmatter separator
HasSeparatorLine(text) == \E i \in 1..Len(file_lines(text)) : is_separator(file_lines(text)[i])

\* C2 as stated: write then read gives back (m, trim(b)), b with its surrounding
\* whitespace trimmed.
C2_AsStated ==
    pc = "read" =>
        /\ ~last.read.crash
        /\ last.read.frontmatter = last.frontmatter
        /\ last.read.content = strip(last.content)

\* C2, amended: write then read gives back the body with its trailing whitespace
\* replaced by one newline and its leading whitespace kept; the frontmatter read
\* is m when m is a map, and also when m is none and no line of the body is a
\* separator line; when m is none and the body has a separator line, read takes
\* the lines before the first separator line as frontmatter.
C2_RoundTrip ==
    pc = "read" =>
        LET m == last.frontmatter
            b == rstrip(last.content) \o <<NL>>
        IN /\ ~last.read.crash
           /\ (~m.isNone \/ ~HasSeparatorLine(b)) =>
                 /\ last.read.frontmatter = m
                 /\ last.read.content = b
           /\ (m.isNone /\ HasSeparatorLine(b)) =>
                 /\ ~last.read.frontmatter.isNone
                 /\ \E i \in 1..Len(file_lines(b)) :
                       /\ is_separator(file_lines(b)[i])
                       /\ \A j \in 1..(i - 1) : ~is_separator(file_lines(b)[j])
                       /\ last.read.content = concat(SubSeq(file_lines(b), i + 1, Len(file_lines(b))))

\* C2 witness: a map and a body with leading and trailing whitespace were written
\* and read back
C2_Witness ==
    /\ pc = "read"
    /\ ~last.frontmatter.isNone
    /\ last.frontmatter.kv # <<>>
    /\ Len(last.content) >= 3
    /\ IsSpace(last.content[1])
    /\ IsSpace(last.content[Len(last.content)])
    /\ \E i \in 1..Len(last.content) : ~IsSpace(last.content[i])
    /\ last.read.frontmatter = last.frontmatter

-----------------------------------------------------------------------------
(* The page graph on its own: a document tree, generate_pages, then           *)
(* post_generation, as handle_build runs them                                 *)

FOLDER_B == <<"b">>
FOLDER_E == <<"e">>
FOLDER_F == <<"f">>
PAGE_C == <<"c", ".", "m", "d">>
PAGE_D == <<"d", ".", "m", "d">>
PAGE_G == <<"g", ".", "m", "d">>

MaxEntries == 3

\* the entries of the root chapter: a page, the TOC marker, a section, a name
\* that is neither file nor folder, a folder without sidecar
TreeNames == {FILE_A, TOC_INDEX, FOLDER_B, NO_SUCH, FOLDER_E}
TreeEntries == UNION {[1..k -> TreeNames] : k \in 0..MaxEntries}

\* the entries of section b; f is a section inside it
SectionEntries == {<<PAGE_C, PAGE_D>>, <<PAGE_C, FOLDER_F>>, <<FOLDER_F, PAGE_D>>}

\* the files of a tree; the index of section b may be missing, a.md may name
\* images, b/d.md names the image of the root
TreeFiles(b_index, a_doc) ==
    [path \in {<<CHAPTER_INDEX>>, <<FILE_A>>, <<FOLDER_B, PAGE_C>>, <<FOLDER_B, PAGE_D>>,
               <<FOLDER_B, FOLDER_F, CHAPTER_INDEX>>, <<FOLDER_B, FOLDER_F, PAGE_G>>,
               <<IMAGE_I>>}
              \cup (IF b_index THEN {<<FOLDER_B, CHAPTER_INDEX>>} ELSE {}) |->
        IF path = <<FILE_A>> THEN a_doc
        ELSE IF path = <<FOLDER_B, PAGE_D>> THEN DocUpImage
        ELSE IF path = <<IMAGE_I>> THEN <<>>
        ELSE DocPlain]

InitPages ==
    /\ \E entries \in TreeEntries, section \in SectionEntries, b_index \in BOOLEAN,
          a_doc \in {DocPlain, DocImages} :
          /\ files = TreeFiles(b_index, a_doc)
          /\ chapters = (<<>> :> entries) @@ (<<FOLDER_B>> :> section)
                        @@ (<<FOLDER_B, FOLDER_F>> :> <<PAGE_G>>)
    /\ dirs = {<<>>, <<FOLDER_B>>, <<FOLDER_E>>, <<FOLDER_B, FOLDER_F>>}
    /\ writes = <<>>
    /\ last = [cmd |-> "build", root |-> NoPage]
    /\ pre = NoPre
    /\ pages = <<>>
    /\ pc = "tree"
    /\ steps = 0

GeneratedPages(r) ==
    /\ pages' = r.pages
    /\ last' = [cmd |-> "build", root |-> r.root]
    /\ pc' = IF r.crash THEN "crashed" ELSE "generated"

\* handle_build: root_page = book.generate_pages(html, ext, stat, pages)
GeneratePages ==
    /\ pc = "tree"
    /\ GeneratedPages(generate_pages(Disk, <<>>, [pages |-> <<>>, crash |-> FALSE]))
    /\ UNCHANGED <<files, dirs, chapters, writes, pre, steps>>

\* handle_build: toc=generate_toc([root_page] + root_page.children, ext,
\* index_source, index_target)
GenerateToc ==
    /\ pc = "generated"
    /\ last' = [cmd |-> "build", root |-> last.root,
                toc |-> generate_toc(pages, <<last.root>> \o pages[last.root].children,
                                     <<CHAPTER_INDEX>>)]
    /\ pc' = "toc"
    /\ UNCHANGED <<files, dirs, chapters, writes, pre, pages, steps>>

\* handle_build: Page.post_generation(pages)
PostGeneration ==
    /\ pc = "toc"
    /\ pages' = post_generation(pages)
    /\ pc' = "threaded"
    /\ UNCHANGED <<files, dirs, chapters, writes, last, pre, steps>>

\* handle_build: for page in pages: page.write(templates, gen); writes lists the
\* sources of the pages rendered
WritePages ==
    /\ pc = "threaded"
    /\ writes' = [i \in 1..Len(pages) |-> pages[i].source]
    /\ pc' = "written"
    /\ UNCHANGED <<files, dirs, chapters, last, pre, pages, steps>>

CopiedImages(r) ==
    /\ last' = [cmd |-> "build", root |-> last.root, toc |-> last.toc,
                copied |-> r.copied]
    /\ pc' = IF r.crash THEN "crashed" ELSE "copied"

\* handle_build: the images the markdown files name are copied
CopyImages ==
    /\ pc = "written"
    /\ CopiedImages(build_images(Disk))
    /\ UNCHANGED <<files, dirs, chapters, writes, pre, pages, steps>>

\* handle_build: stat.print_estimate(), the last statement
PrintEstimate ==
    /\ pc = "copied"
    /\ pc' = "done"
    /\ UNCHANGED <<files, dirs, chapters, writes, last, pre, pages, steps>>

NextPages ==
    GeneratePages \/ GenerateToc \/ PostGeneration \/ WritePages \/ CopyImages
    \/ PrintEstimate

SpecPages == InitPages /\ [][NextPages]_vars

\* the pages met by following next_page from page p, at most fuel of them
RECURSIVE FollowNext(_, _)
FollowNext(p, fuel) ==
    IF p = NoPage \/ fuel = 0 THEN <<>>
    ELSE <<p>> \o FollowNext(pages[p].next_page, fuel - 1)

\* the pre-order of the document tree on disk, as the sources of its pages: the
\* index of a chapter, then its entries in sidecar order, a section with its
\* whole subtree in the place of its entry
RECURSIVE PreOrder(_)
PreOrderEntries(folder) ==
    [i \in 1..Len(chapters[folder]) |->
        IF path_join(folder, chapters[folder][i]) \in DOMAIN files
           \/ chapters[folder][i] = TOC_INDEX
        THEN <<path_join(folder, chapters[folder][i])>>
        ELSE IF path_join(folder, chapters[folder][i]) \in DOMAIN chapters
        THEN PreOrder(path_join(folder, chapters[folder][i]))
        ELSE <<>>]

PreOrder(folder) == <<path_join(folder, CHAPTER_INDEX)>> \o concat(PreOrderEntries(folder))

\* the sources of a sequence of pages
SourcesOf(visit) == [i \in 1..Len(visit) |-> pages[visit[i]].source]

\* C1: once generate_pages and post_generation have run, following next from
\* the root index page visits every built page exactly once, in the pre-order
\* of the document tree; the first page has no prev, the last no next, and q is
\* p.next exactly when p is q.prev.
C1_PreOrderThreading ==
    pc = "threaded" =>
        /\ Len(FollowNext(last.root, Len(pages) + 1)) = Len(pages)
        /\ {FollowNext(last.root, Len(pages) + 1)[i] : i \in 1..Len(pages)} = 1..Len(pages)
        /\ SourcesOf(FollowNext(last.root, Len(pages) + 1)) = PreOrder(<<>>)
        /\ pages[last.root].prev_page = NoPage
        /\ pages[FollowNext(last.root, Len(pages) + 1)[Len(pages)]].next_page = NoPage
        /\ \A p, q \in 1..Len(pages) :
              (pages[p].next_page = q) <=> (pages[q].prev_page = p)

\* C1 witness: the tree Root -> [A, B -> [C, D]] is threaded Root, A, B, C, D
C1_Witness ==
    /\ pc = "threaded"
    /\ chapters[<<>>] = <<FILE_A, FOLDER_B>>
    /\ chapters[<<FOLDER_B>>] = <<PAGE_C, PAGE_D>>
    /\ SourcesOf(FollowNext(last.root, Len(pages) + 1))
         = << <<CHAPTER_INDEX>>, <<FILE_A>>, <<FOLDER_B, CHAPTER_INDEX>>,
              <<FOLDER_B, PAGE_C>>, <<FOLDER_B, PAGE_D>> >>
    /\ pages[1].children = <<2, 3>>
    /\ pages[3].children = <<4, 5>>


\* the number of lists open at the i-th tag of a table of contents
Depth(toc, i) ==
    Cardinality({j \in 1..(i - 1) : toc[j].tag = "ul"})
    - Cardinality({j \in 1..(i - 1) : toc[j].tag = "/ul"})

\* the pages of the items among the tags from a to b that lie at the depth, in
\* their order
RECURSIVE ItemsAt(_, _, _, _)
ItemsAt(toc, a, b, depth) ==
    IF a > b THEN <<>>
    ELSE (IF toc[a].tag = "li" /\ Depth(toc, a) = depth THEN <<toc[a].page>> ELSE <<>>)
         \o ItemsAt(toc, a + 1, b, depth)

\* the place where the item that starts at the i-th tag ends
ItemEnd(toc, i) ==
    CHOOSE j \in i..Len(toc) :
        /\ toc[j].tag = "/li"
        /\ Depth(toc, j) = Depth(toc, i)
        /\ \A k \in (i + 1)..(j - 1) : ~(toc[k].tag = "/li" /\ Depth(toc, k) = Depth(toc, i))

\* the page list generate_toc is given: the root page and its children
TocList == <<last.root>> \o pages[last.root].children

\* the places of the TOC markers in the page list
TocMarkers == {i \in 1..Len(TocList) : pages[TocList[i]].is_toc}

\* the pages of the list that the table of contents is to name, by the claim
TocPages ==
    IF TocMarkers # {}
    THEN SubSeq(TocList, (CHOOSE i \in TocMarkers : \A j \in TocMarkers : i <= j) + 1,
                Len(TocList))
    ELSE SelectSeq(TocList, LAMBDA p : pages[p].source # <<CHAPTER_INDEX>>)

\* C14: the table of contents has top-level items for exactly the pages after
\* the TOC marker, in list order, or, without marker, for all pages except the
\* index page; every item holds the items of the children of its page, in their
\* order, nested one level below it.
C14_TocItems ==
    pc \in {"toc", "threaded"} =>
        /\ ItemsAt(last.toc, 1, Len(last.toc), 0) = TocPages
        /\ \A i \in 1..Len(last.toc) :
              last.toc[i].tag = "li" =>
                  ItemsAt(last.toc, i, ItemEnd(last.toc, i), Depth(last.toc, i) + 1)
                    = pages[last.toc[i].page].children

\* C14 witness: the page list [Index, TOC marker, A, B], B a section with two
\* pages, gives the items A and B, and B holds its two pages
C14_Witness ==
    /\ pc = "toc"
    /\ chapters[<<>>] = <<TOC_INDEX, FILE_A, FOLDER_B>>
    /\ chapters[<<FOLDER_B>>] = <<PAGE_C, PAGE_D>>
    /\ SourcesOf(TocList)
         = << <<CHAPTER_INDEX>>, <<TOC_INDEX>>, <<FILE_A>>, <<FOLDER_B, CHAPTER_INDEX>> >>
    /\ SourcesOf(ItemsAt(last.toc, 1, Len(last.toc), 0))
         = << <<FILE_A>>, <<FOLDER_B, CHAPTER_INDEX>> >>
    /\ SourcesOf(ItemsAt(last.toc, 1, Len(last.toc), 1))
         = << <<FOLDER_B, PAGE_C>>, <<FOLDER_B, PAGE_D>> >>


\* every section the root chapter lists has its index file, so that
\* generate_pages runs through
IndexFilesThere ==
    in_list(chapters[<<>>], FOLDER_B) => <<FOLDER_B, CHAPTER_INDEX>> \in DOMAIN files

\* the local images the pages of the book name that are on disk, page by page
\* in the pre-order of the tree
RECURSIVE ImagesOnDisk(_)
ImagesOnDisk(mds) ==
    IF mds = <<>> THEN <<>>
    ELSE (IF Head(mds) \in DOMAIN files
          THEN SelectSeq(
                 [k \in 1..Len(ImagesOf(ReadBack(files, Head(mds)).content)) |->
                     Target(dirname(Head(mds)),
                            ImagesOf(ReadBack(files, Head(mds)).content)[k].url)],
                 LAMBDA t : t \in DOMAIN files)
          ELSE <<>>)
         \o ImagesOnDisk(Tail(mds))

\* C15: a build of a book in which a chapter entry names a folder without
\* sidecar skips that branch, renders all other pages, those listed after the
\* folder too, and runs to completion.
C15_FolderWithoutSidecarSkipped ==
    (/\ in_list(chapters[<<>>], FOLDER_E)
     /\ IndexFilesThere
     /\ files[<<FILE_A>>] = DocPlain)
    => /\ pc # "crashed"
       /\ pc \in {"written", "copied", "done"} => writes = PreOrder(<<>>)

\* C16: a build of a book where a page names a local image that is not on disk
\* skips that image, copies every other local image that is named, and runs to
\* completion.
C16_MissingImageSkipped ==
    (/\ in_list(chapters[<<>>], FILE_A)
     /\ ~in_list(chapters[<<>>], FOLDER_E)
     /\ IndexFilesThere
     /\ files[<<FILE_A>>] = DocImages)
    => /\ pc # "crashed"
       /\ pc \in {"copied", "done"} => last.copied = ImagesOnDisk(PreOrder(<<>>))

\* without a folder that has no sidecar and without a missing image the build
\* runs through, and the images named are copied
BuildRunsThrough ==
    (/\ ~in_list(chapters[<<>>], FOLDER_E)
     /\ IndexFilesThere
     /\ files[<<FILE_A>>] = DocPlain \/ ~in_list(chapters[<<>>], FILE_A))
    => /\ pc # "crashed"
       /\ pc \in {"copied", "done"} => last.copied = ImagesOnDisk(PreOrder(<<>>))

=============================================================================
